---- MODULE Spec2Model ----
(***************************************************************************)
(* Model of the appointment-booking checkout store                         *)
(* (business_agent/store.py, class ServiceStore) and of the agent tools    *)
(* that drive it (business_agent/agent.py).                                *)
(*                                                                         *)
(* Python objects are modelled as records, lists as sequences, dicts as    *)
(* functions.  uuid4() is modelled by per-kind counters: an identifier is  *)
(* never handed out twice.  Calls to the Square provider are inputs of     *)
(* the actions: whether a lookup or a booking call succeeds is chosen      *)
(* nondeterministically.                                                   *)
(***************************************************************************)
EXTENDS Integers, Sequences, FiniteSets, TLC

(***************************************************************************)
(* Bounds of the model                                                     *)
(***************************************************************************)
\* MaxUuids: uuid4() calls in a behaviour; MaxQuantity: largest quantity of a
\* line item; MaxRequests: slot requests in one set_appointment call
MaxUuids == 5
MaxQuantity == 2
MaxRequests == 1
\* MaxBatch: slot requests in one set_appointment call of the batch caller
MaxBatch == 2

None == "None"

(***************************************************************************)
(* Identifiers                                                             *)
(***************************************************************************)
\* uuid4(): the n-th identifier of a kind
Uuid(kind, n) == kind \o ToString(n)

CallerSlotId == "slot-custom"
\* a second slot id chosen by the caller
OtherSlotId == "slot-other"

(***************************************************************************)
(* The provider's catalog and directory (square_client.py)                 *)
(***************************************************************************)
ServiceIds == {"svc1", "svc2"}

\* ServiceVariation objects; price is a float, here an exact fraction
\* (12.25 and 30.0 are exactly representable doubles).
ServiceVariation(id) ==
    IF id = "svc1"
    THEN [id |-> id, price |-> [num |-> 49, den |-> 4], duration_seconds |-> 1800]
    ELSE [id |-> id, price |-> [num |-> 30, den |-> 1], duration_seconds |-> 3600]

Location(id) == [id |-> id, name |-> IF id = "loc1" THEN "Downtown Salon" ELSE "Uptown Salon"]

(***************************************************************************)
(* Sequence helpers                                                        *)
(***************************************************************************)
Contains(seq, x) == \E i \in DOMAIN seq : seq[i] = x

Range(seq) == {seq[i] : i \in DOMAIN seq}

RECURSIVE SumAmounts(_)
SumAmounts(seq) == IF seq = <<>> THEN 0 ELSE Head(seq) + SumAmounts(Tail(seq))

\* a variant that puts the later lists first
RECURSIVE FlattenBackwards(_)
FlattenBackwards(seqs) ==
    IF seqs = <<>> THEN <<>> ELSE FlattenBackwards(Tail(seqs)) \o Head(seqs)

RECURSIVE Flatten(_)
Flatten(seqs) == IF seqs = <<>> THEN <<>> ELSE Head(seqs) \o Flatten(Tail(seqs))

(***************************************************************************)
(* Totals (store.py, _recalculate_checkout)                                *)
(***************************************************************************)
Total(type, amount) == [type |-> type, amount |-> amount]

\* the amount of the entry of the given type in a totals list
AmountOf(totals, type) ==
    LET idx == {i \in DOMAIN totals : totals[i].type = type}
    IN IF idx = {} THEN None ELSE totals[CHOOSE i \in idx : \A j \in idx : i <= j].amount

\* Python 3 round(subtotal * 0.1).  The double nearest to 0.1 exceeds 0.1 by
\* 1/(5 * 2^55); for integer n the product n * 0.1 is computed in double
\* precision: when n/10 has fractional part one half the excess is below
\* half an ulp and the product is exactly n/10, otherwise it is nowhere
\* near a half.  round() of a float then rounds half to even.
PyRoundTenth(n) ==
    LET a == IF n < 0 THEN 0 - n ELSE n
        q == a \div 10
        r == a % 10
        m == IF r < 5 THEN q
             ELSE IF r > 5 THEN q + 1
             ELSE IF q % 2 = 0 THEN q ELSE q + 1
    IN IF n < 0 THEN 0 - m ELSE m

\* a variant that forgets the quantity
LineItemTotalsOfOne(line_item) ==
    LET base_amount == line_item.item.price
        discount == 0
    IN << Total("items_discount", discount),
          Total("subtotal", base_amount - discount),
          Total("total", base_amount - discount) >>

LineItemTotals(line_item) ==
    LET base_amount == line_item.item.price * line_item.quantity
        discount == 0
    IN << Total("items_discount", discount),
          Total("subtotal", base_amount - discount),
          Total("total", base_amount - discount) >>

CheckoutTotals(line_items) ==
    LET items_base_amount ==
            SumAmounts([i \in DOMAIN line_items |->
                            line_items[i].item.price * line_items[i].quantity])
        items_discount == SumAmounts([i \in DOMAIN line_items |-> 0])
        subtotal == items_base_amount - items_discount
        tax == PyRoundTenth(subtotal)
    IN << Total("items_discount", items_discount),
          Total("subtotal", items_base_amount - items_discount),
          Total("discount", 0),
          Total("tax", tax),
          Total("total", subtotal + tax) >>

\* a variant that leaves the status alone
recalculate_checkout_keeping_status(checkout) ==
    [checkout EXCEPT
        !.line_items = [i \in DOMAIN checkout.line_items |->
                           [checkout.line_items[i] EXCEPT
                               !.totals = LineItemTotals(checkout.line_items[i])]],
        !.totals = CheckoutTotals(checkout.line_items)]

recalculate_checkout(checkout) ==
    [checkout EXCEPT
        !.status = "incomplete",
        !.line_items = [i \in DOMAIN checkout.line_items |->
                           [checkout.line_items[i] EXCEPT
                               !.totals = LineItemTotals(checkout.line_items[i])]],
        !.totals = CheckoutTotals(checkout.line_items)]

(***************************************************************************)
(* State                                                                   *)
(***************************************************************************)
VARIABLES
    square,         \* TRUE iff a Square client is configured (self.square)
    checkouts,      \* self._checkouts: checkout id -> checkout
    orders,         \* self._orders: order id -> completed checkout
    service_cache,  \* keys of self._service_cache
    uuids,          \* identifiers handed out so far, per kind
    bookings,       \* number of bookings the provider has created
    last,           \* the last call and what it returned
    threads,        \* the calls that are running concurrently, each with its
                    \* local variables, and the checkout they started from
    state           \* tool_context.state of the agent's conversation, and the
                    \* last tool call with the status of its response

vars == <<square, checkouts, orders, service_cache, uuids, bookings, last, threads, state>>

\* the number of uuid4() calls made so far
UuidsUsed == uuids.checkout + uuids.line_item + uuids.slot + uuids.option

\* the optional quantity argument of update_checkout: None or an integer
NoQuantity == [given |-> FALSE, value |-> 0]
Quantity(q) == [given |-> TRUE, value |-> q]

\* the optional appointment arguments of add_to_checkout and update_checkout
\* when none is given
NoAppt == [location_id |-> None, staff_id |-> None, start_time |-> None, notes |-> None]

\* the customer_* entries of the agent's state before update_customer_details
NoCustomer == [email |-> None, first_name |-> None, last_name |-> None, phone |-> None]

\* a tool call of the agent: the tool, the status of its response ("success",
\* "error", "requires_more_info", or "no_checkout" for the error response
\* 'A Checkout has not yet been created.') and what the payment processor
\* did in it ("none" if it was not called)
ToolCall(tool, status, task) == [tool |-> tool, status |-> status, task |-> task]

\* the threads of the host that call the store at the same time
Threads == {1, 2}

\* a thread that has made no call: its position, its call (operation,
\* service, line item, quantity, appointment arguments), and the slot its
\* scan of the slots found
IdleThread ==
    [pc |-> "idle", op |-> None, checkout_id |-> None, service_variation_id |-> None,
     line_item_id |-> None, quantity |-> NoQuantity, appt |-> NoAppt, existing_slot |-> None,
     calls |-> <<>>, attempts |-> <<>>, outcome |-> None]

\* the record of a call: the operation, the checkout id it worked on, how it
\* ended ("ok", "messages", "not_found", "error"), the status the checkout had
\* when the call began (None if there was no such checkout), the line item
\* the call named or worked on (None if none), the appointment arguments it
\* was given, the slot requests it was given (each with the provider's
\* behaviour for it), the service and the quantity it was given, and what it
\* returned or did at the provider
Result(op, checkout_id, outcome) ==
    [op |-> op, checkout_id |-> checkout_id, outcome |-> outcome,
     line_item_id |-> None, appt |-> NoAppt, calls |-> <<>>,
     service_variation_id |-> None, quantity |-> NoQuantity,
     status_before |-> IF checkout_id \in DOMAIN checkouts
                       THEN checkouts[checkout_id].status ELSE None,
     messages |-> <<>>, attempts |-> <<>>, failed |-> {}, booking_ids |-> <<>>]

Init ==
    /\ square \in BOOLEAN
    /\ checkouts = << >>
    /\ orders = << >>
    /\ service_cache = {}
    /\ uuids = [checkout |-> 0, line_item |-> 0, slot |-> 0, option |-> 0]
    /\ bookings = 0
    /\ last = Result("init", None, "ok")
    /\ threads = [base |-> [id |-> None], run |-> [t \in Threads |-> IdleThread]]
    /\ state = [checkout_id |-> None, payment_data |-> FALSE, customer |-> NoCustomer,
                call |-> ToolCall("none", "none", "none")]

(***************************************************************************)
(* Service catalog: get_service_variation, search_services                 *)
(***************************************************************************)
\* a variant that asks the catalog whether or not a client is configured
lookup_service_without_client(cache, service_variation_id, provider_ok) ==
    IF service_variation_id \in cache
    THEN [ok |-> TRUE, cache |-> cache]
    ELSE IF service_variation_id \in ServiceIds /\ (provider_ok \/ ~square)
    THEN [ok |-> TRUE, cache |-> cache \cup {service_variation_id}]
    ELSE [ok |-> FALSE, cache |-> cache]

\* a variant that does not keep what the provider returned
lookup_service_not_caching(cache, service_variation_id, provider_ok) ==
    IF service_variation_id \in cache
    THEN [ok |-> TRUE, cache |-> cache]
    ELSE IF ~square
    THEN [ok |-> FALSE, cache |-> cache]
    ELSE IF service_variation_id \in ServiceIds /\ provider_ok
    THEN [ok |-> TRUE, cache |-> cache]
    ELSE [ok |-> FALSE, cache |-> cache]

\* provider_ok: the provider call, if one is made, succeeds.  The result is
\* ok (a ServiceVariation is returned) or an exception, and the cache after.
lookup_service(cache, service_variation_id, provider_ok) ==
    IF service_variation_id \in cache
    THEN [ok |-> TRUE, cache |-> cache]
    ELSE IF ~square
    THEN [ok |-> FALSE, cache |-> cache]
    ELSE IF service_variation_id \in ServiceIds /\ provider_ok
    THEN [ok |-> TRUE, cache |-> cache \cup {service_variation_id}]
    ELSE [ok |-> FALSE, cache |-> cache]

get_service_variation(service_variation_id, provider_ok) ==
    lookup_service(service_cache, service_variation_id, provider_ok)

SearchServices(provider_ok) ==
    /\ service_cache' = IF square /\ provider_ok THEN service_cache \cup ServiceIds
                        ELSE service_cache
    /\ last' = Result("search_services", None, IF square /\ ~provider_ok THEN "error" ELSE "ok")
    /\ UNCHANGED <<square, checkouts, orders, uuids, bookings>>

(***************************************************************************)
(* Line items and slots                                                    *)
(***************************************************************************)
\* _get_line_item: unit_price = int((service.price or 0) * 100)
get_line_item(service, quantity, id) ==
    [id |-> id,
     item |-> [id |-> service.id,
               price |-> (service.price.num * 100) \div service.price.den],
     quantity |-> quantity,
     totals |-> <<>>]

\* optional objects: the record standing for Python's None
NoBuyer == [email |-> None]
Buyer(email) == [email |-> email]
NoOrder == [id |-> None, permalink_url |-> None]

NewCheckout(id) ==
    [id |-> id, line_items |-> <<>>, totals |-> <<>>, status |-> "incomplete",
     buyer |-> NoBuyer, appointment |-> [slots |-> <<>>], order |-> NoOrder]

\* index of the first element satisfying Test, 0 if there is none
FirstIndex(seq, Test(_)) ==
    LET idx == {i \in DOMAIN seq : Test(seq[i])}
    IN IF idx = {} THEN 0 ELSE CHOOSE i \in idx : \A j \in idx : i <= j

\* a variant whose placeholder does not carry the requested id
LocationRespWithoutId(location_id, lookup_ok) ==
    IF square /\ lookup_ok
    THEN [id |-> Location(location_id).id, name |-> Location(location_id).name]
    ELSE [id |-> "", name |-> ""]

\* RetailLocationResponse built from a location lookup; the lookup is made
\* only with a configured client, and a failed lookup gives a blank name
LocationResp(location_id, lookup_ok) ==
    IF square /\ lookup_ok
    THEN [id |-> Location(location_id).id, name |-> Location(location_id).name]
    ELSE [id |-> location_id, name |-> ""]

\* a variant that appends a slot whether or not one lists the line item
add_appointment_slot_always(checkout, line_item_id, location_id, staff_id, start_time, notes, service, lookup_ok, slot_id, option_id) ==
    [checkout EXCEPT !.appointment.slots =
        Append(@, [id |-> slot_id,
                   line_item_ids |-> <<line_item_id>>,
                   location |-> [id |-> location_id, name |-> ""],
                   options |-> <<[id |-> option_id,
                                  start_time |-> start_time,
                                  end_time |-> start_time,
                                  staff_id |-> staff_id,
                                  duration_minutes |-> service.duration_seconds \div 60]>>,
                   selected_option_id |-> option_id,
                   notes |-> notes])]

\* a variant that, updating in place, makes the slot list the line item alone
update_appointment_slot_for_one(checkout, line_item_id, location_id, staff_id, start_time, notes, service, lookup_ok, slot_id, option_id) ==
    LET slots == checkout.appointment.slots
        HasItem(slot) == Contains(slot.line_item_ids, line_item_id)
        existing == IF \E i \in DOMAIN slots : HasItem(slots[i])
                    THEN CHOOSE i \in DOMAIN slots :
                             HasItem(slots[i]) /\ \A j \in 1..(i - 1) : ~HasItem(slots[j])
                    ELSE 0
        slot == [id |-> slot_id,
                 line_item_ids |-> <<line_item_id>>,
                 location |-> [id |-> location_id, name |-> ""],
                 options |-> <<[id |-> option_id,
                                start_time |-> start_time,
                                end_time |-> start_time,
                                staff_id |-> staff_id,
                                duration_minutes |-> service.duration_seconds \div 60]>>,
                 selected_option_id |-> option_id,
                 notes |-> notes]
    IN IF existing # 0
       THEN [checkout EXCEPT !.appointment.slots[existing] =
                [slot EXCEPT !.id = slots[existing].id]]
       ELSE [checkout EXCEPT !.appointment.slots = Append(slots, slot)]

\* a variant that adds the new option to those of the slot it updates
add_option_to_appointment_slot(checkout, line_item_id, location_id, staff_id, start_time, notes, service, lookup_ok, slot_id, option_id) ==
    LET slots == checkout.appointment.slots
        HasItem(slot) == Contains(slot.line_item_ids, line_item_id)
        existing == FirstIndex(slots, HasItem)
        option == [id |-> option_id,
                   start_time |-> start_time,
                   end_time |-> start_time,
                   staff_id |-> staff_id,
                   duration_minutes |-> service.duration_seconds \div 60]
    IN IF existing # 0
       THEN [checkout EXCEPT !.appointment.slots[existing] =
                [@ EXCEPT !.location = LocationResp(location_id, lookup_ok),
                          !.options = Append(@, option),
                          !.selected_option_id = option.id,
                          !.notes = notes]]
       ELSE [checkout EXCEPT !.appointment.slots =
                Append(slots, [id |-> slot_id,
                               line_item_ids |-> <<line_item_id>>,
                               location |-> LocationResp(location_id, lookup_ok),
                               options |-> <<option>>,
                               selected_option_id |-> option.id,
                               notes |-> notes])]

\* _add_or_update_appointment_slot; slot_id and option_id are the results
\* of the two uuid4() calls
add_or_update_appointment_slot(checkout, line_item_id, location_id, staff_id, start_time, notes, service, lookup_ok, slot_id, option_id) ==
    LET slots == checkout.appointment.slots
        HasItem(slot) == Contains(slot.line_item_ids, line_item_id)
        existing == FirstIndex(slots, HasItem)
        location_resp == LocationResp(location_id, lookup_ok)
        option == [id |-> option_id,
                   start_time |-> start_time,
                   end_time |-> start_time,
                   staff_id |-> staff_id,
                   duration_minutes |-> service.duration_seconds \div 60]
    IN IF existing # 0
       THEN [checkout EXCEPT !.appointment.slots[existing] =
                [@ EXCEPT !.location = location_resp,
                          !.options = <<option>>,
                          !.selected_option_id = option.id,
                          !.notes = notes]]
       ELSE [checkout EXCEPT !.appointment.slots =
                Append(slots, [id |-> slot_id,
                               line_item_ids |-> <<line_item_id>>,
                               location |-> location_resp,
                               options |-> <<option>>,
                               selected_option_id |-> option.id,
                               notes |-> notes])]

\* some slot of the checkout lists the line item
Covered(checkout, line_item_id) ==
    \E i \in DOMAIN checkout.appointment.slots :
        Contains(checkout.appointment.slots[i].line_item_ids, line_item_id)

\* Python truthiness of an optional string argument
Given(arg) == arg # None /\ arg # ""

(***************************************************************************)
(* add_to_checkout                                                         *)
(***************************************************************************)
\* a variant that gives a line item already there the new quantity
add_or_replace_line_item(checkout, service, quantity, line_item_id) ==
    LET idx == {i \in DOMAIN checkout.line_items : checkout.line_items[i].item.id = service.id}
    IN IF idx # {}
       THEN [checkout EXCEPT !.line_items[CHOOSE i \in idx : \A j \in idx : i <= j].quantity =
                                 quantity]
       ELSE [checkout EXCEPT !.line_items =
                Append(@, get_line_item(service, quantity, line_item_id))]

\* the loop over the line items and the append after it: the first line item
\* of the service gets the quantity added; if there is none a new line item
\* with the given id goes to the end of the list
add_or_merge_line_item(checkout, service, quantity, line_item_id) ==
    LET SameService(li) == li.item.id = service.id
        found == FirstIndex(checkout.line_items, SameService)
    IN IF found # 0
       THEN [checkout EXCEPT !.line_items[found].quantity = @ + quantity]
       ELSE [checkout EXCEPT !.line_items =
                Append(@, get_line_item(service, quantity, line_item_id))]

AddToCheckout(checkout_id, service_variation_id, quantity, appt, lookup_ok, provider_ok) ==
    LET lookup == get_service_variation(service_variation_id, provider_ok)
        creating == ~Given(checkout_id)
        cid == IF creating THEN Uuid("co", uuids.checkout + 1) ELSE checkout_id
    IN
    IF ~lookup.ok
    THEN /\ last' = [Result("add_to_checkout", checkout_id, "error")
                        EXCEPT !.service_variation_id = service_variation_id,
                               !.quantity = Quantity(quantity)]
         /\ UNCHANGED <<square, checkouts, orders, service_cache, uuids, bookings>>
    ELSE IF ~creating /\ checkout_id \notin DOMAIN checkouts
    THEN /\ service_cache' = lookup.cache
         /\ last' = [Result("add_to_checkout", checkout_id, "not_found")
                        EXCEPT !.service_variation_id = service_variation_id,
                               !.quantity = Quantity(quantity)]
         /\ UNCHANGED <<square, checkouts, orders, uuids, bookings>>
    ELSE
    LET service == ServiceVariation(service_variation_id)
        checkout == IF creating THEN NewCheckout(cid) ELSE checkouts[checkout_id]
        SameService(li) == li.item.id = service_variation_id
        found == FirstIndex(checkout.line_items, SameService)
        new_line_item_id == IF found # 0 THEN checkout.line_items[found].id
                            ELSE Uuid("li", uuids.line_item + 1)
        with_item == add_or_merge_line_item(checkout, service, quantity, new_line_item_id)
        wants_slot == Given(appt.location_id) /\ Given(appt.start_time)
        new_slot == wants_slot /\ ~Covered(with_item, new_line_item_id)
        with_slot ==
            IF wants_slot
            THEN add_or_update_appointment_slot(
                     with_item, new_line_item_id, appt.location_id, appt.staff_id,
                     appt.start_time, appt.notes, service, lookup_ok,
                     Uuid("sl", uuids.slot + 1), Uuid("op", uuids.option + 1))
            ELSE with_item
        final == recalculate_checkout(with_slot)
    IN
    /\ UuidsUsed + (IF creating THEN 1 ELSE 0) + (IF found = 0 THEN 1 ELSE 0)
           + (IF new_slot THEN 1 ELSE 0) + (IF wants_slot THEN 1 ELSE 0) <= MaxUuids
    /\ \A i \in DOMAIN final.line_items : final.line_items[i].quantity <= MaxQuantity
    /\ checkouts' = (cid :> final) @@ checkouts
    /\ service_cache' = lookup.cache
    /\ uuids' = [checkout |-> uuids.checkout + (IF creating THEN 1 ELSE 0),
                 line_item |-> uuids.line_item + (IF found = 0 THEN 1 ELSE 0),
                 slot |-> uuids.slot + (IF new_slot THEN 1 ELSE 0),
                 option |-> uuids.option + (IF wants_slot THEN 1 ELSE 0)]
    /\ last' = [Result("add_to_checkout", cid, "ok")
                   EXCEPT !.line_item_id = new_line_item_id, !.appt = appt,
                          !.service_variation_id = service_variation_id,
                          !.quantity = Quantity(quantity)]
    /\ UNCHANGED <<square, orders, bookings>>

(***************************************************************************)
(* get_checkout                                                            *)
(***************************************************************************)
\* a variant that also finds the checkouts stored as orders
GetCheckoutOrOrder(checkout_id) ==
    /\ last' = Result("get_checkout", checkout_id,
                      IF checkout_id \in DOMAIN checkouts \/ "ORD-" \o checkout_id \in DOMAIN orders
                      THEN "ok" ELSE "not_found")
    /\ UNCHANGED <<square, checkouts, orders, service_cache, uuids, bookings>>

GetCheckout(checkout_id) ==
    /\ last' = Result("get_checkout", checkout_id,
                      IF checkout_id \in DOMAIN checkouts THEN "ok" ELSE "not_found")
    /\ UNCHANGED <<square, checkouts, orders, service_cache, uuids, bookings>>

(***************************************************************************)
(* remove_from_checkout                                                    *)
(***************************************************************************)
\* a variant whose filter on the line items is inverted
remove_line_item_keeping_only(checkout, line_item_id) ==
    LET Same(li) == li.id = line_item_id
        NotListing(slot) == ~Contains(slot.line_item_ids, line_item_id)
        without_item == [checkout EXCEPT !.line_items = SelectSeq(@, Same)]
    IN [without_item EXCEPT !.appointment.slots = SelectSeq(@, NotListing)]

\* a variant that removes the line item and keeps every slot
remove_line_item_keeping_slots(checkout, line_item_id) ==
    LET Other(li) == li.id # line_item_id
    IN [checkout EXCEPT !.line_items = SelectSeq(@, Other)]

\* a variant whose filter on the slots is inverted
remove_line_item_keeping_its_slots(checkout, line_item_id) ==
    LET Other(li) == li.id # line_item_id
        Lists(slot) == Contains(slot.line_item_ids, line_item_id)
        without_item == [checkout EXCEPT !.line_items = SelectSeq(@, Other)]
    IN [without_item EXCEPT !.appointment.slots = SelectSeq(@, Lists)]

\* the two list comprehensions of remove_from_checkout: the line items
\* without the named one, the slots without those that list it
remove_line_item(checkout, line_item_id) ==
    LET Other(li) == li.id # line_item_id
        NotListing(slot) == ~Contains(slot.line_item_ids, line_item_id)
        without_item == [checkout EXCEPT !.line_items = SelectSeq(@, Other)]
    IN [without_item EXCEPT !.appointment.slots = SelectSeq(@, NotListing)]

RemoveFromCheckout(checkout_id, line_item_id) ==
    IF checkout_id \notin DOMAIN checkouts
    THEN /\ last' = Result("remove_from_checkout", checkout_id, "not_found")
         /\ UNCHANGED <<square, checkouts, orders, service_cache, uuids, bookings>>
    ELSE
    LET without_slot == remove_line_item(checkouts[checkout_id], line_item_id)
    IN
    /\ checkouts' = [checkouts EXCEPT ![checkout_id] = recalculate_checkout(without_slot)]
    /\ last' = [Result("remove_from_checkout", checkout_id, "ok")
                   EXCEPT !.line_item_id = line_item_id]
    /\ UNCHANGED <<square, orders, service_cache, uuids, bookings>>

(***************************************************************************)
(* update_checkout                                                         *)
(***************************************************************************)
\* a variant that assigns the quantity to every line item the loop visits
find_and_update_visited_line_items(checkout, line_item_id, quantity) ==
    LET idx == {i \in DOMAIN checkout.line_items : checkout.line_items[i].id = line_item_id}
        stop == IF idx = {} THEN Len(checkout.line_items)
                ELSE CHOOSE i \in idx : \A j \in idx : i <= j
    IN IF quantity.given
       THEN [checkout EXCEPT !.line_items =
                [i \in DOMAIN @ |-> IF i <= stop THEN [@[i] EXCEPT !.quantity = quantity.value]
                                    ELSE @[i]]]
       ELSE checkout

\* a variant that adds the quantity to the one the line item has
find_and_add_to_line_item(checkout, line_item_id, quantity) ==
    LET idx == {i \in DOMAIN checkout.line_items : checkout.line_items[i].id = line_item_id}
    IN IF idx # {} /\ quantity.given
       THEN [checkout EXCEPT !.line_items[CHOOSE i \in idx : \A j \in idx : i <= j].quantity =
                                 @ + quantity.value]
       ELSE checkout

\* the loop that finds the line item: the checkout after it.  The first line
\* item with the id gets the quantity, if one is given; no other line item
\* is touched
find_and_update_line_item(checkout, line_item_id, quantity) ==
    LET IsItem(li) == li.id = line_item_id
        found == FirstIndex(checkout.line_items, IsItem)
    IN IF found # 0 /\ quantity.given
       THEN [checkout EXCEPT !.line_items[found].quantity = quantity.value]
       ELSE checkout

\* quantity is [given |-> BOOLEAN, value |-> Int]: None or an integer.
\* The checkout is mutated in place: an exception raised after the quantity
\* was assigned leaves the new quantity in the stored checkout.
UpdateCheckout(checkout_id, line_item_id, quantity, appt, lookup_ok, provider_ok) ==
    IF checkout_id \notin DOMAIN checkouts
    THEN /\ last' = Result("update_checkout", checkout_id, "not_found")
         /\ UNCHANGED <<square, checkouts, orders, service_cache, uuids, bookings>>
    ELSE
    LET checkout == checkouts[checkout_id]
        IsItem(li) == li.id = line_item_id
        found == FirstIndex(checkout.line_items, IsItem)
        with_quantity == find_and_update_line_item(checkout, line_item_id, quantity)
    IN
    IF found = 0
    THEN /\ checkouts' = [checkouts EXCEPT ![checkout_id] = with_quantity]
         /\ last' = [Result("update_checkout", checkout_id, "not_found")
                        EXCEPT !.line_item_id = line_item_id, !.appt = appt,
                               !.quantity = quantity]
         /\ UNCHANGED <<square, orders, service_cache, uuids, bookings>>
    ELSE
    LET wants_slot == Given(appt.location_id) /\ Given(appt.start_time)
        service_id == checkout.line_items[found].item.id
        lookup == IF wants_slot THEN get_service_variation(service_id, provider_ok)
                  ELSE [ok |-> TRUE, cache |-> service_cache]
        new_slot == wants_slot /\ ~Covered(with_quantity, line_item_id)
        with_slot ==
            IF wants_slot
            THEN add_or_update_appointment_slot(
                     with_quantity, line_item_id, appt.location_id, appt.staff_id,
                     appt.start_time, appt.notes, ServiceVariation(service_id), lookup_ok,
                     Uuid("sl", uuids.slot + 1), Uuid("op", uuids.option + 1))
            ELSE with_quantity
    IN
    IF ~lookup.ok
    THEN /\ checkouts' = [checkouts EXCEPT ![checkout_id] = with_quantity]
         /\ last' = [Result("update_checkout", checkout_id, "error")
                        EXCEPT !.line_item_id = line_item_id, !.appt = appt,
                               !.quantity = quantity]
         /\ UNCHANGED <<square, orders, service_cache, uuids, bookings>>
    ELSE
    /\ UuidsUsed + (IF new_slot THEN 1 ELSE 0) + (IF wants_slot THEN 1 ELSE 0) <= MaxUuids
    /\ checkouts' = [checkouts EXCEPT ![checkout_id] = recalculate_checkout(with_slot)]
    /\ service_cache' = lookup.cache
    /\ uuids' = [uuids EXCEPT !.slot = @ + (IF new_slot THEN 1 ELSE 0),
                              !.option = @ + (IF wants_slot THEN 1 ELSE 0)]
    /\ last' = [Result("update_checkout", checkout_id, "ok")
                   EXCEPT !.line_item_id = line_item_id, !.appt = appt,
                          !.quantity = quantity]
    /\ UNCHANGED <<square, orders, bookings>>

(***************************************************************************)
(* set_appointment                                                         *)
(***************************************************************************)
\* a variant that appends a slot for every request, whatever id it carries
apply_slot_request_appending(run, slot_req, provider_ok) ==
    LET option_id == Uuid("op", run.option + 1)
        fresh == ~Given(slot_req.id)
    IN [checkout |->
            [run.checkout EXCEPT !.appointment.slots =
                Append(@, [id |-> IF fresh THEN Uuid("sl", run.slot + 1) ELSE slot_req.id,
                           line_item_ids |-> slot_req.line_item_ids,
                           location |-> LocationResp(slot_req.location_id, provider_ok),
                           options |-> <<[id |-> option_id,
                                          start_time |-> slot_req.start_time,
                                          end_time |-> None,
                                          staff_id |-> slot_req.staff_id,
                                          duration_minutes |-> 60]>>,
                           selected_option_id |-> option_id,
                           notes |-> slot_req.notes])],
        cache |-> run.cache,
        slot |-> run.slot + (IF fresh THEN 1 ELSE 0),
        option |-> run.option + 1]

\* a variant that takes a slot for the named one only if it lists the same
\* line items as the request
apply_slot_request_matching_items(run, slot_req, provider_ok) ==
    LET checkout == run.checkout
        slots == checkout.appointment.slots
        option == [id |-> Uuid("op", run.option + 1),
                   start_time |-> slot_req.start_time,
                   end_time |-> None,
                   staff_id |-> slot_req.staff_id,
                   duration_minutes |-> 60]
        HasId(slot) == slot.id = slot_req.id /\ slot.line_item_ids = slot_req.line_item_ids
        existing == IF Given(slot_req.id) THEN FirstIndex(slots, HasId) ELSE 0
        fresh == existing = 0 /\ ~Given(slot_req.id)
    IN [checkout |->
            IF existing # 0
            THEN [checkout EXCEPT !.appointment.slots[existing] =
                     [@ EXCEPT !.line_item_ids = slot_req.line_item_ids,
                               !.location = LocationResp(slot_req.location_id, provider_ok),
                               !.options = <<option>>,
                               !.selected_option_id = option.id,
                               !.notes = slot_req.notes]]
            ELSE [checkout EXCEPT !.appointment.slots =
                     Append(slots,
                            [id |-> IF Given(slot_req.id) THEN slot_req.id
                                    ELSE Uuid("sl", run.slot + 1),
                             line_item_ids |-> slot_req.line_item_ids,
                             location |-> LocationResp(slot_req.location_id, provider_ok),
                             options |-> <<option>>,
                             selected_option_id |-> option.id,
                             notes |-> slot_req.notes])],
        cache |-> run.cache,
        slot |-> run.slot + (IF fresh THEN 1 ELSE 0),
        option |-> run.option + 1]

\* One iteration of the loop over appointment.slots.  run is the loop state:
\* the checkout, the service cache and the uuid counters.  provider_ok: the
\* provider answers the lookups made for this request.
apply_slot_request(run, slot_req, provider_ok) ==
    LET checkout == run.checkout
        slots == checkout.appointment.slots
        location_resp == LocationResp(slot_req.location_id, provider_ok)
        Listed(li) == Contains(slot_req.line_item_ids, li.id)
        first == FirstIndex(checkout.line_items, Listed)
        lookup == IF first = 0 THEN [ok |-> FALSE, cache |-> run.cache]
                  ELSE lookup_service(run.cache, checkout.line_items[first].item.id,
                                      provider_ok)
        duration_minutes ==
            IF lookup.ok
            THEN ServiceVariation(checkout.line_items[first].item.id).duration_seconds \div 60
            ELSE 60
        option == [id |-> Uuid("op", run.option + 1),
                   start_time |-> slot_req.start_time,
                   end_time |-> None,
                   staff_id |-> slot_req.staff_id,
                   duration_minutes |-> duration_minutes]
        HasId(slot) == slot.id = slot_req.id
        existing == IF Given(slot_req.id) THEN FirstIndex(slots, HasId) ELSE 0
        fresh == existing = 0 /\ ~Given(slot_req.id)
    IN [checkout |->
            IF existing # 0
            THEN [checkout EXCEPT !.appointment.slots[existing] =
                     [@ EXCEPT !.line_item_ids = slot_req.line_item_ids,
                               !.location = location_resp,
                               !.options = <<option>>,
                               !.selected_option_id = option.id,
                               !.notes = slot_req.notes]]
            ELSE [checkout EXCEPT !.appointment.slots =
                     Append(slots,
                            [id |-> IF Given(slot_req.id) THEN slot_req.id
                                    ELSE Uuid("sl", run.slot + 1),
                             line_item_ids |-> slot_req.line_item_ids,
                             location |-> location_resp,
                             options |-> <<option>>,
                             selected_option_id |-> option.id,
                             notes |-> slot_req.notes])],
        cache |-> lookup.cache,
        slot |-> run.slot + (IF fresh THEN 1 ELSE 0),
        option |-> run.option + 1]

\* calls: the requests in order, each with the provider's behaviour for it
RECURSIVE apply_slot_requests(_, _)
apply_slot_requests(run, calls) ==
    IF calls = <<>> THEN run
    ELSE apply_slot_requests(
             apply_slot_request(run, Head(calls).slot_req, Head(calls).provider_ok),
             Tail(calls))

SetAppointment(checkout_id, calls) ==
    IF checkout_id \notin DOMAIN checkouts
    THEN /\ last' = Result("set_appointment", checkout_id, "not_found")
         /\ UNCHANGED <<square, checkouts, orders, service_cache, uuids, bookings>>
    ELSE
    LET run == apply_slot_requests(
                   [checkout |-> checkouts[checkout_id], cache |-> service_cache,
                    slot |-> uuids.slot, option |-> uuids.option],
                   calls)
    IN
    /\ UuidsUsed + (run.slot - uuids.slot) + (run.option - uuids.option) <= MaxUuids
    /\ checkouts' = [checkouts EXCEPT ![checkout_id] = recalculate_checkout(run.checkout)]
    /\ service_cache' = run.cache
    /\ uuids' = [uuids EXCEPT !.slot = run.slot, !.option = run.option]
    /\ last' = [Result("set_appointment", checkout_id, "ok") EXCEPT !.calls = calls]
    /\ UNCHANGED <<square, orders, bookings>>

(***************************************************************************)
(* start_payment and the agent's update_customer_details                   *)
(***************************************************************************)
\* a variant that asks for a service when the checkout has no line item
DeficienciesOfEmptyCheckout(checkout) ==
    (IF checkout.buyer = NoBuyer THEN <<"Provide a buyer email address">> ELSE <<>>)
    \o (IF checkout.line_items = <<>> THEN <<"No services in the checkout">> ELSE <<>>)

\* a variant that looks for unscheduled items only when there is no slot
DeficienciesWithoutSlots(checkout) ==
    (IF checkout.buyer = NoBuyer THEN <<"Provide a buyer email address">> ELSE <<>>)
    \o (IF checkout.appointment.slots = <<>> /\ checkout.line_items # <<>>
        THEN <<"No appointments scheduled for services">>
        ELSE <<>>)

\* the deficiency messages start_payment collects, in order
Deficiencies(checkout) ==
    LET slots == checkout.appointment.slots
        scheduled_items == UNION {Range(slots[i].line_item_ids) : i \in DOMAIN slots}
        Unscheduled(li) == li.id \notin scheduled_items
    IN (IF checkout.buyer = NoBuyer THEN <<"Provide a buyer email address">> ELSE <<>>)
       \o (IF slots # <<>>
           THEN IF SelectSeq(checkout.line_items, Unscheduled) # <<>>
                THEN <<"Some services don't have appointments scheduled">>
                ELSE <<>>
           ELSE IF checkout.line_items # <<>>
                THEN <<"No appointments scheduled for services">>
                ELSE <<>>)

\* a variant that returns the checkout without marking it ready
start_payment_not_marking(checkout) ==
    IF checkout.status = "ready_for_complete"
    THEN [outcome |-> "ok", messages |-> <<>>, checkout |-> checkout]
    ELSE IF Deficiencies(checkout) # <<>>
    THEN [outcome |-> "messages", messages |-> Deficiencies(checkout), checkout |-> checkout]
    ELSE [outcome |-> "ok", messages |-> <<>>, checkout |-> recalculate_checkout(checkout)]

\* a variant that recalculates a checkout that is ready before returning it
start_payment_recalculating(checkout) ==
    IF checkout.status = "ready_for_complete"
    THEN [outcome |-> "ok", messages |-> <<>>, checkout |-> recalculate_checkout(checkout)]
    ELSE IF Deficiencies(checkout) # <<>>
    THEN [outcome |-> "messages", messages |-> Deficiencies(checkout), checkout |-> checkout]
    ELSE [outcome |-> "ok", messages |-> <<>>,
          checkout |-> [recalculate_checkout(checkout) EXCEPT !.status = "ready_for_complete"]]

\* start_payment on a stored checkout: what is returned and the checkout after
start_payment(checkout) ==
    IF checkout.status = "ready_for_complete"
    THEN [outcome |-> "ok", messages |-> <<>>, checkout |-> checkout]
    ELSE IF Deficiencies(checkout) # <<>>
    THEN [outcome |-> "messages", messages |-> Deficiencies(checkout), checkout |-> checkout]
    ELSE [outcome |-> "ok", messages |-> <<>>,
          checkout |-> [recalculate_checkout(checkout) EXCEPT !.status = "ready_for_complete"]]

StartPayment(checkout_id) ==
    IF checkout_id \notin DOMAIN checkouts
    THEN /\ last' = Result("start_payment", checkout_id, "not_found")
         /\ UNCHANGED <<square, checkouts, orders, service_cache, uuids, bookings>>
    ELSE
    LET r == start_payment(checkouts[checkout_id])
    IN
    /\ checkouts' = [checkouts EXCEPT ![checkout_id] = r.checkout]
    /\ last' = [Result("start_payment", checkout_id, r.outcome) EXCEPT !.messages = r.messages]
    /\ UNCHANGED <<square, orders, service_cache, uuids, bookings>>

\* agent.py update_customer_details: records the buyer on the stored checkout,
\* then runs start_payment
UpdateCustomerDetails(checkout_id, email) ==
    IF checkout_id \notin DOMAIN checkouts
    THEN /\ last' = Result("update_customer_details", checkout_id, "not_found")
         /\ UNCHANGED <<square, checkouts, orders, service_cache, uuids, bookings>>
    ELSE
    LET r == start_payment([checkouts[checkout_id] EXCEPT !.buyer = Buyer(email)])
    IN
    /\ checkouts' = [checkouts EXCEPT ![checkout_id] = r.checkout]
    /\ last' = [Result("update_customer_details", checkout_id, r.outcome)
                   EXCEPT !.messages = r.messages]
    /\ UNCHANGED <<square, orders, service_cache, uuids, bookings>>

(***************************************************************************)
(* place_order                                                             *)
(***************************************************************************)
\* the create_booking calls of one slot, in the order of its line_item_ids:
\* one per listed id that is the id of a line item, if the selected option
\* is among the slot's options
RECURSIVE SlotBookingCalls(_, _, _, _)
SlotBookingCalls(checkout, slot, customer, k) ==
    IF k > Len(slot.line_item_ids) THEN <<>>
    ELSE
    LET IsItem(li) == li.id = slot.line_item_ids[k]
        found == FirstIndex(checkout.line_items, IsItem)
        IsSelected(opt) == opt.id = slot.selected_option_id
        selected == FirstIndex(slot.options, IsSelected)
        call == IF found # 0 /\ selected # 0
                THEN << [location_id |-> slot.location.id,
                         start_time |-> slot.options[selected].start_time,
                         service_variation_id |-> checkout.line_items[found].item.id,
                         customer |-> customer,
                         customer_notes |-> slot.notes,
                         staff_id |-> slot.options[selected].staff_id,
                         slot_id |-> slot.id,
                         line_item_id |-> slot.line_item_ids[k]] >>
                ELSE <<>>
    IN call \o SlotBookingCalls(checkout, slot, customer, k + 1)

\* every create_booking call of one place_order, in call order
BookingCalls(checkout, customer) ==
    IF ~square THEN <<>>
    ELSE Flatten([i \in DOMAIN checkout.appointment.slots |->
                     SlotBookingCalls(checkout, checkout.appointment.slots[i], customer, 1)])

\* booking_ids: the ids of the bookings created by the calls that did not
\* raise; the provider numbers its bookings from created + 1
RECURSIVE CollectBookingIds(_, _, _, _)
CollectBookingIds(calls, failed, k, created) ==
    IF k > Len(calls) THEN <<>>
    ELSE IF k \in failed
    THEN CollectBookingIds(calls, failed, k + 1, created)
    ELSE <<Uuid("bk", created + 1)>> \o CollectBookingIds(calls, failed, k + 1, created + 1)

\* a variant that uses the checkout id itself
OrderIdSameAsCheckout(checkout_id) == checkout_id

\* a variant that gives every order the same id
OrderIdWithoutCheckout(checkout_id) == "ORD-"

OrderId(checkout_id) == "ORD-" \o checkout_id

OrderConfirmation(order_id) ==
    [id |-> order_id, permalink_url |-> "https://example.com/order?id=" \o order_id]

\* a variant that empties the active checkouts when it stores the order
PlaceOrderClearing(checkout_id, customer, failed) ==
    IF checkout_id \notin DOMAIN checkouts
    THEN /\ failed = {}
         /\ last' = Result("place_order", checkout_id, "not_found")
         /\ UNCHANGED <<square, checkouts, orders, service_cache, uuids, bookings>>
    ELSE
    LET calls == BookingCalls(checkouts[checkout_id], customer)
        booking_ids == CollectBookingIds(calls, failed, 1, bookings)
    IN
    /\ failed \subseteq DOMAIN calls
    /\ orders' = (OrderId(checkout_id) :>
                     [checkouts[checkout_id] EXCEPT
                         !.status = "completed",
                         !.order = OrderConfirmation(OrderId(checkout_id))]) @@ orders
    /\ checkouts' = << >>
    /\ bookings' = bookings + Len(booking_ids)
    /\ last' = [Result("place_order", checkout_id, "ok") EXCEPT
                   !.attempts = calls, !.failed = failed, !.booking_ids = booking_ids]
    /\ UNCHANGED <<square, service_cache, uuids>>

\* a variant that stores the order and leaves the checkout among the active
PlaceOrderKeepingCheckout(checkout_id, customer, failed) ==
    IF checkout_id \notin DOMAIN checkouts
    THEN /\ failed = {}
         /\ last' = Result("place_order", checkout_id, "not_found")
         /\ UNCHANGED <<square, checkouts, orders, service_cache, uuids, bookings>>
    ELSE
    LET calls == BookingCalls(checkouts[checkout_id], customer)
        booking_ids == CollectBookingIds(calls, failed, 1, bookings)
    IN
    /\ failed \subseteq DOMAIN calls
    /\ orders' = (OrderId(checkout_id) :>
                     [checkouts[checkout_id] EXCEPT
                         !.status = "completed",
                         !.order = OrderConfirmation(OrderId(checkout_id))]) @@ orders
    /\ checkouts' = checkouts
    /\ bookings' = bookings + Len(booking_ids)
    /\ last' = [Result("place_order", checkout_id, "ok") EXCEPT
                   !.attempts = calls, !.failed = failed, !.booking_ids = booking_ids]
    /\ UNCHANGED <<square, service_cache, uuids>>

\* failed: the positions of the create_booking calls that raise
PlaceOrder(checkout_id, customer, failed) ==
    IF checkout_id \notin DOMAIN checkouts
    THEN /\ failed = {}
         /\ last' = Result("place_order", checkout_id, "not_found")
         /\ UNCHANGED <<square, checkouts, orders, service_cache, uuids, bookings>>
    ELSE
    LET checkout == checkouts[checkout_id]
        calls == BookingCalls(checkout, customer)
        booking_ids == CollectBookingIds(calls, failed, 1, bookings)
        order_id == OrderId(checkout_id)
        completed == [checkout EXCEPT !.status = "completed",
                                      !.order = OrderConfirmation(order_id)]
    IN
    /\ failed \subseteq DOMAIN calls
    /\ orders' = (order_id :> completed) @@ orders
    /\ checkouts' = [id \in DOMAIN checkouts \ {checkout_id} |-> checkouts[id]]
    /\ bookings' = bookings + Len(booking_ids)
    /\ last' = [Result("place_order", checkout_id, "ok") EXCEPT
                   !.attempts = calls, !.failed = failed, !.booking_ids = booking_ids]
    /\ UNCHANGED <<square, service_cache, uuids>>

(***************************************************************************)
(* Inputs                                                                  *)
(***************************************************************************)
Appt1 == [location_id |-> "loc1", staff_id |-> None, start_time |-> "t1", notes |-> None]
Appt2 == [location_id |-> "loc2", staff_id |-> "staff1", start_time |-> "t2", notes |-> "note"]
\* appointment arguments with the start time or the location left out
ApptNoTime == [Appt1 EXCEPT !.start_time = None]
ApptNoLocation == [Appt2 EXCEPT !.location_id = None]

\* the slot ids a caller can name: none, or the id of a slot of the checkout
SlotIdsOf(checkout) ==
    {checkout.appointment.slots[i].id : i \in DOMAIN checkout.appointment.slots}

SlotRequest(id, line_item_ids, a) ==
    [id |-> id, line_item_ids |-> line_item_ids, location_id |-> a.location_id,
     staff_id |-> a.staff_id, start_time |-> a.start_time, notes |-> a.notes]

\* the lists of at most MaxRequests calls over a set of calls
\* (every request takes at least one uuid, for its option)
CallLists(calls) ==
    LET left == MaxUuids - UuidsUsed
    IN UNION {[1..n -> calls] : n \in 0..(IF left < MaxRequests THEN left ELSE MaxRequests)}

Customer1 == [email |-> "ann@example.com", first_name |-> "Ann", last_name |-> "Lee",
              phone |-> "555-0100"]

\* the positions of the create_booking calls place_order would make
BookingPositions(checkout_id, customer) ==
    IF checkout_id \in DOMAIN checkouts
    THEN DOMAIN BookingCalls(checkouts[checkout_id], customer)
    ELSE {}

(***************************************************************************)
(* Specification: one checkout driven by one caller through its life.      *)
(* Like the agent's tools, the caller creates the checkout with its first  *)
(* add_to_checkout and names it in every later call.  It names line items  *)
(* of the checkout, and in slot requests also an id that is no line        *)
(* item's; it names slots by no id, by an id of its own, or by the id of a *)
(* slot of the checkout.                                                   *)
(***************************************************************************)
CurrentCheckoutIds == IF uuids.checkout = 0 THEN {None} ELSE DOMAIN checkouts

\* the ids of the checkout's line items, in list order
ItemIdSeq(checkout) == [i \in DOMAIN checkout.line_items |-> checkout.line_items[i].id]

\* line_item_ids of a slot request: one id, or two line items in list order
LineItemIdLists(checkout) ==
    {<<a>> : a \in Range(ItemIdSeq(checkout)) \cup {"li-ghost"}}
        \cup {<<ItemIdSeq(checkout)[p[1]], ItemIdSeq(checkout)[p[2]]>> :
                 p \in {q \in (DOMAIN checkout.line_items) \X (DOMAIN checkout.line_items) :
                           q[1] < q[2]}}

SlotCalls(checkout) ==
    {[slot_req |-> SlotRequest(id, lids, Appt1), provider_ok |-> TRUE] :
        id \in {None, CallerSlotId} \cup SlotIdsOf(checkout),
        lids \in LineItemIdLists(checkout)}

Add ==
    /\ UNCHANGED <<threads, state>>
    /\ \E id \in CurrentCheckoutIds, s \in ServiceIds, a \in {NoAppt, Appt1},
       provider_ok \in BOOLEAN :
        AddToCheckout(id, s, 1, a, TRUE, provider_ok)

Remove ==
    /\ UNCHANGED <<threads, state>>
    /\ \E id \in DOMAIN checkouts :
        \E li \in Range(ItemIdSeq(checkouts[id])) : RemoveFromCheckout(id, li)

Update ==
    /\ UNCHANGED <<threads, state>>
    /\ \E id \in DOMAIN checkouts, q \in {NoQuantity, Quantity(MaxQuantity)},
       a \in {NoAppt, Appt2} :
        \E li \in Range(ItemIdSeq(checkouts[id])), provider_ok \in BOOLEAN :
            UpdateCheckout(id, li, q, a, TRUE, provider_ok)

SetAppt ==
    /\ UNCHANGED <<threads, state>>
    /\ \E id \in DOMAIN checkouts :
        \E calls \in CallLists(SlotCalls(checkouts[id])) : SetAppointment(id, calls)

Gate ==
    /\ UNCHANGED <<threads, state>>
    /\ \E id \in DOMAIN checkouts : StartPayment(id)

Customer ==
    /\ UNCHANGED <<threads, state>>
    /\ \E id \in DOMAIN checkouts : UpdateCustomerDetails(id, Customer1.email)

Finalize ==
    /\ UNCHANGED <<threads, state>>
    /\ \E id \in DOMAIN checkouts :
        \E failed \in SUBSET BookingPositions(id, Customer1) :
            PlaceOrder(id, Customer1, failed)

Next ==
    \/ Add
    \/ Remove
    \/ Update
    \/ SetAppt
    \/ Gate
    \/ Customer
    \/ Finalize

Spec == Init /\ [][Next]_vars

(***************************************************************************)
(* Specification: a caller that names any checkout it has heard of, active *)
(* or completed, or one that never existed, in every store operation; that *)
(* opens further checkouts; that names a line item the checkout does not   *)
(* have; and that sets a negative quantity.                                *)
(***************************************************************************)
\* the checkout ids handed out so far
KnownCheckoutIds == {Uuid("co", n) : n \in 1..uuids.checkout}

AnyCheckoutIds == KnownCheckoutIds \cup {"co-unknown"}

\* the line items a caller names in the checkout: its own, or one it has not
AnyLineItemIds(checkout_id) ==
    IF checkout_id \in DOMAIN checkouts
    THEN Range(ItemIdSeq(checkouts[checkout_id])) \cup {"li-ghost"}
    ELSE {"li1"}

AnyGet ==
    /\ UNCHANGED <<threads, state>>
    /\ \E id \in AnyCheckoutIds : GetCheckout(id)

AnyAdd ==
    /\ UNCHANGED <<threads, state>>
    /\ \E id \in AnyCheckoutIds \cup {None}, a \in {NoAppt, Appt1}, provider_ok \in BOOLEAN :
        AddToCheckout(id, "svc1", 1, a, TRUE, provider_ok)

AnyRemove ==
    /\ UNCHANGED <<threads, state>>
    /\ \E id \in AnyCheckoutIds : \E li \in AnyLineItemIds(id) : RemoveFromCheckout(id, li)

AnyUpdate ==
    /\ UNCHANGED <<threads, state>>
    /\ \E id \in AnyCheckoutIds, q \in {NoQuantity, Quantity(0 - 1)}, a \in {NoAppt, Appt1} :
        \E li \in AnyLineItemIds(id) : UpdateCheckout(id, li, q, a, TRUE, TRUE)

AnySetAppt ==
    /\ UNCHANGED <<threads, state>>
    /\ \E id \in AnyCheckoutIds : \E li \in AnyLineItemIds(id) :
        SetAppointment(id, <<[slot_req |-> SlotRequest(None, <<li>>, Appt1),
                              provider_ok |-> TRUE]>>)

AnyGate ==
    /\ UNCHANGED <<threads, state>>
    /\ \E id \in AnyCheckoutIds : StartPayment(id)

AnyFinalize ==
    /\ UNCHANGED <<threads, state>>
    /\ \E id \in AnyCheckoutIds : PlaceOrder(id, Customer1, {})

NextAnyCaller ==
    \/ AnyGet
    \/ AnyAdd
    \/ AnyRemove
    \/ AnyUpdate
    \/ AnySetAppt
    \/ AnyGate
    \/ AnyFinalize

SpecAnyCaller == Init /\ [][NextAnyCaller]_vars

(***************************************************************************)
(* Specification: a caller that fills a checkout and sends set_appointment *)
(* calls with several slot requests, naming slots by no id, by an id of    *)
(* its own or by the id of a slot of the checkout, while the provider's    *)
(* lookups succeed for some requests and fail for others.                  *)
(***************************************************************************)
BatchCalls(checkout) ==
    {[slot_req |-> SlotRequest(id, <<li>>, Appt1), provider_ok |-> ok] :
        id \in {None, CallerSlotId, OtherSlotId} \cup SlotIdsOf(checkout),
        li \in Range(ItemIdSeq(checkout)),
        ok \in BOOLEAN}

\* the lists of one to MaxBatch calls (every request takes at least one uuid)
BatchLists(calls) ==
    LET left == MaxUuids - UuidsUsed
    IN UNION {[1..n -> calls] : n \in 1..(IF left < MaxBatch THEN left ELSE MaxBatch)}

BatchAdd ==
    /\ UNCHANGED <<threads, state>>
    /\ \E id \in CurrentCheckoutIds, s \in ServiceIds :
        AddToCheckout(id, s, 1, NoAppt, TRUE, TRUE)

BatchSetAppt ==
    /\ UNCHANGED <<threads, state>>
    /\ \E id \in DOMAIN checkouts :
        \E calls \in BatchLists(BatchCalls(checkouts[id])) : SetAppointment(id, calls)

\* the caller gives a line item appointment details, or a location only
BatchUpdate ==
    /\ UNCHANGED <<threads, state>>
    /\ \E id \in DOMAIN checkouts, a \in {Appt2, ApptNoTime} :
        \E li \in Range(ItemIdSeq(checkouts[id])) :
            UpdateCheckout(id, li, NoQuantity, a, TRUE, TRUE)

NextBatch ==
    \/ BatchAdd
    \/ BatchSetAppt
    \/ BatchUpdate

SpecBatch == Init /\ [][NextBatch]_vars

(***************************************************************************)
(* Specification: two threads of the host call the store for the same      *)
(* checkout at the same time.  The store takes no lock, and its methods     *)
(* work on the stored checkout object itself.  A call that attaches         *)
(* appointment details looks the location up at the provider between its    *)
(* scan of the slots and its change of them: while it waits for the         *)
(* provider the other thread runs.  The statements before the lookup are    *)
(* one step of the thread, the statements after it another;                 *)
(* remove_from_checkout calls no provider and is one step.                  *)
(***************************************************************************)
\* the loop at the head of _add_or_update_appointment_slot: the slot found
\* for the line item (its id), None if there is none
scan_existing_slot(checkout, line_item_id) ==
    LET slots == checkout.appointment.slots
        HasItem(slot) == Contains(slot.line_item_ids, line_item_id)
        existing == FirstIndex(slots, HasItem)
    IN IF existing = 0 THEN None ELSE slots[existing].id

\* the rest of _add_or_update_appointment_slot, after the location lookup,
\* with the existing_slot its scan found: that slot object gets the details
\* (which shows in the checkout if the slot is still in its list), or a new
\* slot is appended
attach_appointment_slot(checkout, existing_slot, line_item_id, appt, service, lookup_ok, slot_id, option_id) ==
    LET slots == checkout.appointment.slots
        HasId(slot) == slot.id = existing_slot
        at == FirstIndex(slots, HasId)
        location_resp == LocationResp(appt.location_id, lookup_ok)
        option == [id |-> option_id,
                   start_time |-> appt.start_time,
                   end_time |-> appt.start_time,
                   staff_id |-> appt.staff_id,
                   duration_minutes |-> service.duration_seconds \div 60]
    IN IF existing_slot # None
       THEN IF at # 0
            THEN [checkout EXCEPT !.appointment.slots[at] =
                     [@ EXCEPT !.location = location_resp,
                               !.options = <<option>>,
                               !.selected_option_id = option.id,
                               !.notes = appt.notes]]
            ELSE checkout
       ELSE [checkout EXCEPT !.appointment.slots =
                Append(slots, [id |-> slot_id,
                               line_item_ids |-> <<line_item_id>>,
                               location |-> location_resp,
                               options |-> <<option>>,
                               selected_option_id |-> option.id,
                               notes |-> appt.notes])]

NoThreadStarted == \A t \in Threads : threads.run[t].pc = "idle"

\* the thread starts its call: the checkout the first of the calls found is
\* kept for reference
Started(t, checkout, call) ==
    [base |-> IF NoThreadStarted THEN checkout ELSE threads.base,
     run |-> [threads.run EXCEPT ![t] = call]]

\* add_to_checkout with appointment details, up to the location lookup
BeginAdd(t, checkout_id, service_variation_id, appt) ==
    LET lookup == get_service_variation(service_variation_id, TRUE)
        checkout == checkouts[checkout_id]
        service == ServiceVariation(service_variation_id)
        SameService(li) == li.item.id = service_variation_id
        found == FirstIndex(checkout.line_items, SameService)
        new_line_item_id == IF found # 0 THEN checkout.line_items[found].id
                            ELSE Uuid("li", uuids.line_item + 1)
        with_item == add_or_merge_line_item(checkout, service, 1, new_line_item_id)
    IN
    /\ threads.run[t].pc = "idle"
    /\ lookup.ok
    /\ checkouts' = [checkouts EXCEPT ![checkout_id] = with_item]
    /\ service_cache' = lookup.cache
    /\ uuids' = [uuids EXCEPT !.line_item = @ + (IF found = 0 THEN 1 ELSE 0)]
    /\ threads' = Started(t, checkout,
                          [pc |-> "lookup", op |-> "add_to_checkout",
                           checkout_id |-> checkout_id,
                           service_variation_id |-> service_variation_id,
                           line_item_id |-> new_line_item_id,
                           quantity |-> Quantity(1), appt |-> appt,
                           existing_slot |-> scan_existing_slot(with_item, new_line_item_id)])
    /\ UNCHANGED <<square, orders, bookings, last, state>>

\* update_checkout of a line item of the checkout with appointment details,
\* up to the location lookup (the service of a line item is in the cache)
BeginUpdate(t, checkout_id, line_item_id, quantity, appt) ==
    LET checkout == checkouts[checkout_id]
        IsItem(li) == li.id = line_item_id
        found == FirstIndex(checkout.line_items, IsItem)
        with_quantity == find_and_update_line_item(checkout, line_item_id, quantity)
    IN
    /\ threads.run[t].pc = "idle"
    /\ found # 0
    /\ checkout.line_items[found].item.id \in service_cache
    /\ checkouts' = [checkouts EXCEPT ![checkout_id] = with_quantity]
    /\ threads' = Started(t, checkout,
                          [pc |-> "lookup", op |-> "update_checkout",
                           checkout_id |-> checkout_id,
                           service_variation_id |-> checkout.line_items[found].item.id,
                           line_item_id |-> line_item_id,
                           quantity |-> quantity, appt |-> appt,
                           existing_slot |-> scan_existing_slot(with_quantity, line_item_id)])
    /\ UNCHANGED <<square, orders, service_cache, uuids, bookings, last, state>>

\* the call goes on after the location lookup: the slot is updated or
\* appended, the checkout recalculated and stored
Commit(t) ==
    LET call == threads.run[t]
        checkout == checkouts[call.checkout_id]
        new_slot == call.existing_slot = None
        with_slot == attach_appointment_slot(
                         checkout, call.existing_slot, call.line_item_id, call.appt,
                         ServiceVariation(call.service_variation_id), TRUE,
                         Uuid("sl", uuids.slot + 1), Uuid("op", uuids.option + 1))
    IN
    /\ call.pc = "lookup"
    /\ checkouts' = [checkouts EXCEPT ![call.checkout_id] = recalculate_checkout(with_slot)]
    /\ uuids' = [uuids EXCEPT !.slot = @ + (IF new_slot THEN 1 ELSE 0), !.option = @ + 1]
    /\ threads' = [threads EXCEPT !.run[t].pc = "done"]
    /\ UNCHANGED <<square, orders, service_cache, bookings, last, state>>

\* remove_from_checkout, whole
RunRemove(t, checkout_id, line_item_id) ==
    /\ threads.run[t].pc = "idle"
    /\ checkouts' = [checkouts EXCEPT ![checkout_id] =
                        recalculate_checkout(remove_line_item(checkouts[checkout_id],
                                                              line_item_id))]
    /\ threads' = Started(t, checkouts[checkout_id],
                          [IdleThread EXCEPT !.pc = "done", !.op = "remove_from_checkout",
                                             !.checkout_id = checkout_id,
                                             !.line_item_id = line_item_id])
    /\ UNCHANGED <<square, orders, service_cache, uuids, bookings, last, state>>

\* before the threads start one caller fills the checkout
ConcSetup ==
    /\ NoThreadStarted
    /\ UNCHANGED <<threads, state>>
    /\ \E id \in CurrentCheckoutIds, s \in ServiceIds, a \in {NoAppt, Appt1} :
          AddToCheckout(id, s, 1, a, TRUE, TRUE)

ConcAdd ==
    \E t \in Threads, id \in DOMAIN checkouts, s \in ServiceIds : BeginAdd(t, id, s, Appt1)

ConcUpdate ==
    \E t \in Threads, id \in DOMAIN checkouts, q \in {NoQuantity, Quantity(MaxQuantity)} :
        \E li \in Range(ItemIdSeq(checkouts[id])) : BeginUpdate(t, id, li, q, Appt2)

ConcCommit ==
    \E t \in Threads : Commit(t)

ConcRemove ==
    \E t \in Threads, id \in DOMAIN checkouts :
        \E li \in Range(ItemIdSeq(checkouts[id])) : RunRemove(t, id, li)

NextConcurrent ==
    \/ ConcSetup
    \/ ConcAdd
    \/ ConcUpdate
    \/ ConcCommit
    \/ ConcRemove

SpecConcurrent == Init /\ [][NextConcurrent]_vars

(***************************************************************************)
(* Specification: two threads of the host call place_order for the same    *)
(* checkout at the same time.  place_order looks the checkout up, calls the *)
(* provider once per booking (blocking calls, during which the other       *)
(* thread runs), and then marks the checkout completed, stores it as the   *)
(* order and deletes it from the active checkouts.                         *)
(***************************************************************************)
\* get_checkout at the head of place_order: not-found ends the call, otherwise
\* the slots and line items of the checkout give the calls to make
BeginPlaceOrder(t, checkout_id, customer) ==
    /\ threads.run[t].pc = "idle"
    /\ threads' =
          IF checkout_id \in DOMAIN checkouts
          THEN Started(t, checkouts[checkout_id],
                       [IdleThread EXCEPT !.pc = "booking", !.op = "place_order",
                                          !.checkout_id = checkout_id,
                                          !.calls = BookingCalls(checkouts[checkout_id],
                                                                 customer)])
          ELSE Started(t, [id |-> None],
                       [IdleThread EXCEPT !.pc = "done", !.op = "place_order",
                                          !.checkout_id = checkout_id,
                                          !.outcome = "not_found"])
    /\ UNCHANGED <<square, checkouts, orders, service_cache, uuids, bookings, last, state>>

\* the next create_booking call of the thread
CreateBooking(t) ==
    LET call == threads.run[t]
    IN
    /\ call.pc = "booking"
    /\ Len(call.attempts) < Len(call.calls)
    /\ bookings' = bookings + 1
    /\ threads' = [threads EXCEPT !.run[t].attempts =
                                     Append(@, call.calls[Len(call.attempts) + 1])]
    /\ UNCHANGED <<square, checkouts, orders, service_cache, uuids, last, state>>

\* the end of place_order: the checkout object (by now perhaps the stored
\* order) is marked completed and stored under the order id; del raises
\* KeyError if the checkout is no longer among the active
CommitPlaceOrder(t) ==
    LET call == threads.run[t]
        order_id == OrderId(call.checkout_id)
        active == call.checkout_id \in DOMAIN checkouts
        checkout == IF active THEN checkouts[call.checkout_id] ELSE orders[order_id]
    IN
    /\ call.pc = "booking"
    /\ Len(call.attempts) = Len(call.calls)
    /\ orders' = (order_id :> [checkout EXCEPT !.status = "completed",
                                               !.order = OrderConfirmation(order_id)])
                      @@ orders
    /\ checkouts' = [id \in DOMAIN checkouts \ {call.checkout_id} |-> checkouts[id]]
    /\ threads' = [threads EXCEPT !.run[t].pc = "done",
                                  !.run[t].outcome = IF active THEN "ok" ELSE "error"]
    /\ UNCHANGED <<square, service_cache, uuids, bookings, last, state>>

\* before the threads start one caller gives the buyer
FinCustomer ==
    /\ NoThreadStarted
    /\ UNCHANGED <<threads, state>>
    /\ \E id \in DOMAIN checkouts : UpdateCustomerDetails(id, Customer1.email)

FinBegin ==
    \E t \in Threads, id \in KnownCheckoutIds : BeginPlaceOrder(t, id, Customer1)

FinBook ==
    \E t \in Threads : CreateBooking(t)

FinCommit ==
    \E t \in Threads : CommitPlaceOrder(t)

NextFinalizeTwice ==
    \/ ConcSetup
    \/ FinCustomer
    \/ FinBegin
    \/ FinBook
    \/ FinCommit

SpecFinalizeTwice == Init /\ [][NextFinalizeTwice]_vars

(***************************************************************************)
(* Specification: a caller that builds its checkout with add_to_checkout,  *)
(* update_checkout and remove_from_checkout only, gives some, all or none  *)
(* of the appointment arguments, and goes on to payment and the order,     *)
(* while the provider answers some calls and fails others.                 *)
(***************************************************************************)
CartAdd ==
    /\ UNCHANGED <<threads, state>>
    /\ \E id \in CurrentCheckoutIds, s \in ServiceIds, a \in {NoAppt, Appt1, ApptNoTime},
          provider_ok \in BOOLEAN :
        AddToCheckout(id, s, 1, a, provider_ok, provider_ok)

CartUpdate ==
    /\ UNCHANGED <<threads, state>>
    /\ \E id \in DOMAIN checkouts, q \in {NoQuantity, Quantity(MaxQuantity)},
          a \in {NoAppt, Appt2, ApptNoLocation}, provider_ok \in BOOLEAN :
        \E li \in Range(ItemIdSeq(checkouts[id])) \cup {"li-ghost"} :
            UpdateCheckout(id, li, q, a, provider_ok, provider_ok)

CartFinalize ==
    /\ UNCHANGED <<threads, state>>
    /\ \E id \in DOMAIN checkouts : PlaceOrder(id, Customer1, {})

NextCart ==
    \/ CartAdd
    \/ CartUpdate
    \/ Remove
    \/ Gate
    \/ Customer
    \/ CartFinalize

SpecCart == Init /\ [][NextCart]_vars

(***************************************************************************)
(* Specification: a caller that books two services: it attaches            *)
(* appointments with add_to_checkout and update_checkout, makes slots for  *)
(* one or two of its line items with set_appointment, removes line items,  *)
(* and goes on to payment and the order, while some, all or none of the    *)
(* provider's create_booking calls fail.                                   *)
(***************************************************************************)
\* one slot request, without an id or with an id of the caller's own, for one
\* line item, for two in list order, or for an id that is no line item's
ShareCalls(checkout) ==
    {[slot_req |-> SlotRequest(id, lids, Appt1), provider_ok |-> TRUE] :
        id \in {None, CallerSlotId}, lids \in LineItemIdLists(checkout)}

BookAdd ==
    /\ UNCHANGED <<threads, state>>
    /\ \E id \in CurrentCheckoutIds, s \in ServiceIds, a \in {NoAppt, Appt1} :
        AddToCheckout(id, s, 1, a, TRUE, TRUE)

BookUpdate ==
    /\ UNCHANGED <<threads, state>>
    /\ \E id \in DOMAIN checkouts :
        \E li \in Range(ItemIdSeq(checkouts[id])) :
            UpdateCheckout(id, li, NoQuantity, Appt2, TRUE, TRUE)

BookSetAppt ==
    /\ UNCHANGED <<threads, state>>
    /\ \E id \in DOMAIN checkouts :
        \E call \in ShareCalls(checkouts[id]) : SetAppointment(id, <<call>>)

NextBooking ==
    \/ BookAdd
    \/ BookUpdate
    \/ BookSetAppt
    \/ Remove
    \/ Gate
    \/ Customer
    \/ Finalize

SpecBooking == Init /\ [][NextBooking]_vars

(***************************************************************************)
(* Specification: the agent's tools, called in any order in one            *)
(* conversation.  The tools take the checkout id from the conversation's    *)
(* state; add_to_checkout puts it there when it creates the checkout and    *)
(* complete_checkout clears it after place_order.  The payment data comes   *)
(* into the state from outside the tools; the payment processor answers     *)
(* with a completed task, a task in another state, no task, or an           *)
(* exception.                                                               *)
(***************************************************************************)
\* what mpp.process_payment does
PaymentTasks == {"completed", "failed", "no_task", "raises"}

\* a variant that takes any task for a confirmation
payment_attempted(payment_data, task) ==
    payment_data /\ task \in {"completed", "failed"}

\* complete_checkout goes on to place_order: payment data is in the state and
\* the processor returned a task whose state is completed
payment_confirmed(payment_data, task) ==
    payment_data /\ task = "completed"

\* a variant that keeps the checkout id in the state
checkout_id_kept(checkout_id) == checkout_id

\* state[ADK_USER_CHECKOUT_ID] after place_order returned
checkout_id_after_order(checkout_id) == None

\* the tool's response when the state has no checkout id; the store is not
\* called
NoCheckoutYet(tool) ==
    /\ state' = [state EXCEPT !.call = ToolCall(tool, "no_checkout", "none")]
    /\ UNCHANGED <<square, checkouts, orders, service_cache, uuids, bookings, last, threads>>

\* the status of the response to a store call that returned or raised
Responded(tool) ==
    ToolCall(tool,
             IF last'.outcome = "ok" THEN "success"
             ELSE IF last'.outcome = "messages" THEN "requires_more_info"
             ELSE "error",
             "none")

\* the line items the user names: those of the current checkout
AgentLineItemIds ==
    IF state.checkout_id \in DOMAIN checkouts
    THEN Range(ItemIdSeq(checkouts[state.checkout_id]))
    ELSE {}

AgentAdd ==
    /\ UNCHANGED threads
    /\ \E a \in {NoAppt, Appt1}, provider_ok \in BOOLEAN :
          /\ AddToCheckout(state.checkout_id, "svc1", 1, a, TRUE, provider_ok)
          /\ state' = [state EXCEPT
                          !.checkout_id = IF ~Given(@) /\ last'.outcome = "ok"
                                          THEN last'.checkout_id ELSE @,
                          !.call = Responded("add_to_checkout")]

AgentRemove ==
    IF ~Given(state.checkout_id) THEN NoCheckoutYet("remove_from_checkout")
    ELSE /\ UNCHANGED threads
         /\ \E li \in AgentLineItemIds :
               RemoveFromCheckout(state.checkout_id, li)
         /\ state' = [state EXCEPT !.call = Responded("remove_from_checkout")]

AgentUpdate ==
    IF ~Given(state.checkout_id) THEN NoCheckoutYet("update_checkout")
    ELSE /\ UNCHANGED threads
         /\ \E li \in AgentLineItemIds :
               UpdateCheckout(state.checkout_id, li, Quantity(MaxQuantity), NoAppt, TRUE, TRUE)
         /\ state' = [state EXCEPT !.call = Responded("update_checkout")]

AgentSetAppt ==
    IF ~Given(state.checkout_id) THEN NoCheckoutYet("set_appointment")
    ELSE /\ UNCHANGED threads
         /\ \E li \in AgentLineItemIds :
               \E id \in {None} \cup SlotIdsOf(checkouts[state.checkout_id]) :
                   SetAppointment(state.checkout_id,
                                  <<[slot_req |-> SlotRequest(id, <<li>>, Appt2),
                                     provider_ok |-> TRUE]>>)
         /\ state' = [state EXCEPT !.call = Responded("set_appointment")]

AgentGet ==
    IF ~Given(state.checkout_id) THEN NoCheckoutYet("get_checkout")
    ELSE /\ UNCHANGED threads
         /\ GetCheckout(state.checkout_id)
         /\ state' = [state EXCEPT !.call = Responded("get_checkout")]

AgentCustomer ==
    IF ~Given(state.checkout_id) THEN NoCheckoutYet("update_customer_details")
    ELSE /\ UNCHANGED threads
         /\ UpdateCustomerDetails(state.checkout_id, Customer1.email)
         /\ state' = [state EXCEPT
                         !.customer = IF last'.outcome = "not_found" THEN @ ELSE Customer1,
                         !.call = Responded("update_customer_details")]

AgentStartPayment ==
    IF ~Given(state.checkout_id) THEN NoCheckoutYet("start_payment")
    ELSE /\ UNCHANGED threads
         /\ StartPayment(state.checkout_id)
         /\ state' = [state EXCEPT !.call = Responded("start_payment")]

\* the host puts the payment data into the state when the user confirms the
\* purchase
ConfirmPurchase ==
    /\ ~state.payment_data
    /\ state' = [state EXCEPT !.payment_data = TRUE,
                              !.call = ToolCall("confirm_purchase", "success", "none")]
    /\ UNCHANGED <<square, checkouts, orders, service_cache, uuids, bookings, last, threads>>

\* complete_checkout: task is what the payment processor does if it is called
CompleteCheckout(task, failed) ==
    IF ~Given(state.checkout_id) THEN NoCheckoutYet("complete_checkout")
    ELSE IF state.checkout_id \notin DOMAIN checkouts
    THEN /\ state' = [state EXCEPT !.call = ToolCall("complete_checkout", "error", "none")]
         /\ UNCHANGED <<square, checkouts, orders, service_cache, uuids, bookings, last,
                        threads>>
    ELSE IF ~state.payment_data
    THEN /\ state' = [state EXCEPT
                         !.call = ToolCall("complete_checkout", "requires_more_info", "none")]
         /\ UNCHANGED <<square, checkouts, orders, service_cache, uuids, bookings, last,
                        threads>>
    ELSE IF payment_confirmed(state.payment_data, task)
    THEN /\ PlaceOrder(state.checkout_id, state.customer, failed)
         /\ state' = [state EXCEPT
                         !.checkout_id = checkout_id_after_order(@),
                         !.call = ToolCall("complete_checkout", "success", task)]
         /\ UNCHANGED threads
    ELSE /\ state' = [state EXCEPT !.call = ToolCall("complete_checkout", "error", task)]
         /\ UNCHANGED <<square, checkouts, orders, service_cache, uuids, bookings, last,
                        threads>>

AgentComplete ==
    \E task \in PaymentTasks : CompleteCheckout(task, {})

NextAgent ==
    \/ AgentAdd
    \/ AgentRemove
    \/ AgentUpdate
    \/ AgentSetAppt
    \/ AgentGet
    \/ AgentCustomer
    \/ AgentStartPayment
    \/ ConfirmPurchase
    \/ AgentComplete

SpecAgent == Init /\ [][NextAgent]_vars

(***************************************************************************)
(* Properties                                                              *)
(***************************************************************************)
Slots(checkout) == checkout.appointment.slots

\* the line item ids some slot of the checkout lists
ListedIds(checkout) ==
    UNION {Range(Slots(checkout)[i].line_item_ids) : i \in DOMAIN Slots(checkout)}

\* the ids of the checkout's line items
ItemIds(checkout) == {checkout.line_items[i].id : i \in DOMAIN checkout.line_items}

Mutations == {"add_to_checkout", "update_checkout", "remove_from_checkout", "set_appointment"}

\* C1: in every active checkout, every line item id listed by a slot is the
\* id of one of the checkout's line items (no dangling reference)
C1_NoDanglingReference ==
    \A id \in DOMAIN checkouts : ListedIds(checkouts[id]) \subseteq ItemIds(checkouts[id])

\* C2: in every active checkout, no line item id is listed by more than one slot
C2_AtMostOneSlotPerLineItem ==
    \A id \in DOMAIN checkouts :
        \A i, j \in DOMAIN Slots(checkouts[id]) :
            i # j => Range(Slots(checkouts[id])[i].line_item_ids)
                        \cap Range(Slots(checkouts[id])[j].line_item_ids) = {}

\* C3: place_order on an existing checkout that is not ready_for_complete
\* fails: it makes no booking call, creates no order and leaves the checkout
\* active with its status; a checkout is completed only from ready_for_complete
C3_FinalizeOnlyWhenReady ==
    (last.op = "place_order" /\ last.status_before \in {"incomplete", "completed"})
        => /\ last.outcome = "error"
           /\ last.attempts = <<>>
           /\ "ORD-" \o last.checkout_id \notin DOMAIN orders
           /\ last.checkout_id \in DOMAIN checkouts
           /\ checkouts[last.checkout_id].status = last.status_before

\* C4: place_order on an existing checkout returns normally whichever booking
\* calls fail: the checkout is stored completed under 'ORD-' + id, carries
\* that order id, and is no longer active
C4_FinalizeToleratesBookingFailures ==
    (last.op = "place_order" /\ last.status_before # None)
        => /\ last.outcome = "ok"
           /\ "ORD-" \o last.checkout_id \in DOMAIN orders
           /\ orders["ORD-" \o last.checkout_id].id = last.checkout_id
           /\ orders["ORD-" \o last.checkout_id].status = "completed"
           /\ orders["ORD-" \o last.checkout_id].order.id = "ORD-" \o last.checkout_id
           /\ last.checkout_id \notin DOMAIN checkouts

C4_Witness ==
    /\ last.op = "place_order"
    /\ last.outcome = "ok"
    /\ last.attempts # <<>>
    /\ last.failed = DOMAIN last.attempts

\* the booking references an order confirmation carries
BookingRefs(order) == IF "booking_ids" \in DOMAIN order THEN order.booking_ids ELSE <<>>

\* C5: the stored order records exactly the ids returned by the booking calls
\* that succeeded, in call order
C5_OrderRecordsBookings ==
    (last.op = "place_order" /\ last.outcome = "ok")
        => BookingRefs(orders["ORD-" \o last.checkout_id].order) = last.booking_ids

\* C6: an active checkout that is ready_for_complete has a buyer and every
\* one of its line items is listed by some slot
C6_ReadyIsCoveredWithBuyer ==
    \A id \in DOMAIN checkouts :
        checkouts[id].status = "ready_for_complete"
            => /\ checkouts[id].buyer # NoBuyer
               /\ ItemIds(checkouts[id]) \subseteq ListedIds(checkouts[id])

C6_Witness ==
    \E id \in DOMAIN checkouts :
        /\ checkouts[id].status = "ready_for_complete"
        /\ Len(checkouts[id].line_items) = 2
        /\ last.op = "update_customer_details"

C10_TaxIsHalfUp ==
    \A id \in DOMAIN checkouts :
        LET subtotal == AmountOf(checkouts[id].totals, "subtotal")
        IN subtotal >= 0
            => /\ AmountOf(checkouts[id].totals, "tax") = (subtotal + 5) \div 10
               /\ AmountOf(checkouts[id].totals, "total")
                    = subtotal + AmountOf(checkouts[id].totals, "tax")

\* the slots of the checkout the last call names, before and after a step
\* (none before the call that creates the checkout)
SlotsBefore == IF last'.checkout_id \in DOMAIN checkouts
               THEN Slots(checkouts[last'.checkout_id]) ELSE <<>>
SlotsAfter == Slots(checkouts'[last'.checkout_id])

\* the positions of the slots that list the line item
Listing(slots, line_item_id) ==
    {i \in DOMAIN slots : Contains(slots[i].line_item_ids, line_item_id)}

\* a list of line item ids without one id
WithoutId(line_item_ids, line_item_id) ==
    LET Other(x) == x # line_item_id IN SelectSeq(line_item_ids, Other)

RemoveDone == last'.op = "remove_from_checkout" /\ last'.outcome = "ok"

\* C13: remove_from_checkout of a line item that shares a slot with another
\* line item leaves that slot in the checkout, unchanged but for the removed
\* id, which is dropped from its line_item_ids
C13_RemoveKeepsSharedSlot ==
    [][RemoveDone =>
          \A i \in Listing(SlotsBefore, last'.line_item_id) :
              Len(SlotsBefore[i].line_item_ids) >= 2
                  => \E j \in DOMAIN SlotsAfter :
                         SlotsAfter[j] = [SlotsBefore[i] EXCEPT !.line_item_ids =
                                             WithoutId(@, last'.line_item_id)]]_vars

\* C14: after remove_from_checkout no slot of the checkout lists the removed
\* line item (a slot listing it alone is gone), and the slots that did not
\* list it are all still there, unchanged and in the same order
C14_RemoveSoleMemberRemovesSlot ==
    [][RemoveDone =>
          /\ Listing(SlotsAfter, last'.line_item_id) = {}
          /\ \A i \in DOMAIN SlotsBefore :
                 (i \in Listing(SlotsBefore, last'.line_item_id)
                     /\ SlotsBefore[i].line_item_ids = <<last'.line_item_id>>)
                     => \A j \in DOMAIN SlotsAfter : SlotsAfter[j].id # SlotsBefore[i].id
          /\ LET Kept(slot) == ~Contains(slot.line_item_ids, last'.line_item_id)
             IN SlotsAfter = SelectSeq(SlotsBefore, Kept)]_vars

\* a slot the store created is gone after a removal, and another slot is left
C14_Witness ==
    /\ last.op = "remove_from_checkout"
    /\ last.outcome = "ok"
    /\ Slots(checkouts[last.checkout_id]) # <<>>
    /\ \E n \in 1..uuids.slot : Uuid("sl", n) \notin SlotIdsOf(checkouts[last.checkout_id])

\* add_to_checkout or update_checkout returned the checkout after being given
\* appointment details (a location and a start time)
AttachDone ==
    /\ last'.op \in {"add_to_checkout", "update_checkout"}
    /\ last'.outcome = "ok"
    /\ Given(last'.appt.location_id) /\ Given(last'.appt.start_time)

\* C16: attaching appointment details to a line item that a slot already
\* lists (as after a first such call) adds no slot: the checkout has as many
\* slots as before, with the same ids in the same order, and as many of them
\* list the line item; attaching to a line item no slot lists leaves
\* exactly one slot listing it
C16_AttachTwiceOneSlot ==
    [][AttachDone =>
          IF Listing(SlotsBefore, last'.line_item_id) # {}
          THEN /\ Len(SlotsAfter) = Len(SlotsBefore)
               /\ \A i \in DOMAIN SlotsBefore : SlotsAfter[i].id = SlotsBefore[i].id
               /\ Listing(SlotsAfter, last'.line_item_id)
                     = Listing(SlotsBefore, last'.line_item_id)
          ELSE Cardinality(Listing(SlotsAfter, last'.line_item_id)) = 1]_vars

\* update_checkout attached details to a line item a second time: two options
\* were made, one slot
C16_Witness ==
    /\ last.op = "update_checkout"
    /\ last.outcome = "ok"
    /\ last.appt = Appt2
    /\ uuids.option >= 2
    /\ Len(Slots(checkouts[last.checkout_id])) = 1
    /\ Listing(Slots(checkouts[last.checkout_id]), last.line_item_id) = {1}
    /\ Slots(checkouts[last.checkout_id])[1].location.id = "loc2"

\* the slot carries the given appointment details in one option, which is
\* the selected one and was made by this call
CarriesDetails(slot, appt) ==
    /\ slot.location.id = appt.location_id
    /\ slot.notes = appt.notes
    /\ Len(slot.options) = 1
    /\ slot.options[1].id = Uuid("op", uuids'.option)
    /\ slot.options[1].start_time = appt.start_time
    /\ slot.options[1].staff_id = appt.staff_id
    /\ slot.selected_option_id = slot.options[1].id

\* C17: appointment details given to add_to_checkout or update_checkout for a
\* line item some slot lists replace the location, option, selected option
\* and notes of the first such slot and nothing else: its id, its
\* line_item_ids, its position and all other slots stay; if no slot lists
\* the line item one slot listing it alone is appended
C17_AttachUpdatesInPlace ==
    [][AttachDone =>
          LET listing == Listing(SlotsBefore, last'.line_item_id)
          IN IF listing # {}
             THEN LET k == CHOOSE i \in listing : \A j \in listing : i <= j
                  IN /\ Len(SlotsAfter) = Len(SlotsBefore)
                     /\ \A i \in DOMAIN SlotsBefore \ {k} : SlotsAfter[i] = SlotsBefore[i]
                     /\ SlotsAfter[k].id = SlotsBefore[k].id
                     /\ SlotsAfter[k].line_item_ids = SlotsBefore[k].line_item_ids
                     /\ CarriesDetails(SlotsAfter[k], last'.appt)
             ELSE /\ Len(SlotsAfter) = Len(SlotsBefore) + 1
                  /\ \A i \in DOMAIN SlotsBefore : SlotsAfter[i] = SlotsBefore[i]
                  /\ SlotsAfter[Len(SlotsAfter)].line_item_ids = <<last'.line_item_id>>
                  /\ SlotsAfter[Len(SlotsAfter)].id = Uuid("sl", uuids'.slot)
                  /\ uuids'.slot = uuids.slot + 1
                  /\ CarriesDetails(SlotsAfter[Len(SlotsAfter)], last'.appt)]_vars

\* update_checkout gave new details to a slot that lists two line items
C17_Witness ==
    /\ last.op = "update_checkout"
    /\ last.outcome = "ok"
    /\ last.appt = Appt2
    /\ \E i \in DOMAIN Slots(checkouts[last.checkout_id]) :
          /\ Len(Slots(checkouts[last.checkout_id])[i].line_item_ids) = 2
          /\ Contains(Slots(checkouts[last.checkout_id])[i].line_item_ids, last.line_item_id)
          /\ Slots(checkouts[last.checkout_id])[i].notes = "note"

StoreOps == {"get_checkout", "add_to_checkout", "remove_from_checkout", "update_checkout",
             "set_appointment", "start_payment", "place_order"}

\* the step is a store operation naming a checkout id that is not active:
\* one that was completed or removed, or one that was never handed out
StaleCall ==
    /\ last'.op \in StoreOps
    /\ last'.checkout_id \in AnyCheckoutIds \ DOMAIN checkouts

\* C11: every store operation naming a checkout id that is not active (after
\* its place_order, or never created) reports not-found and leaves the active
\* checkouts and the orders unchanged
C11_StaleIdIsNotFound ==
    [][StaleCall => /\ last'.outcome = "not_found"
                    /\ checkouts' = checkouts
                    /\ orders' = orders]_vars

\* C11 as amended: as C11, except that add_to_checkout looks the service up
\* first and reports the failure of that lookup instead of not-found
C11_StaleIdIsNotFoundOrNoService ==
    [][StaleCall => /\ \/ last'.outcome = "not_found"
                       \/ /\ last'.op = "add_to_checkout"
                          /\ last'.outcome = "error"
                          /\ service_cache' = service_cache
                    /\ checkouts' = checkouts
                    /\ orders' = orders]_vars

\* a store operation other than get_checkout named a completed checkout
C11_Witness ==
    /\ last.op \in StoreOps \ {"get_checkout"}
    /\ last.outcome = "not_found"
    /\ "ORD-" \o last.checkout_id \in DOMAIN orders

\* C12: an order, once stored, stays stored under its id, unchanged and with
\* status completed, whatever is called afterwards
C12_OrdersImmutable ==
    [][\A o \in DOMAIN orders :
          /\ o \in DOMAIN orders'
          /\ orders'[o] = orders[o]
          /\ orders'[o].status = "completed"]_vars

\* a second order was stored beside the first
C12_Witness ==
    /\ Cardinality(DOMAIN orders) = 2
    /\ last.op = "place_order"

\* C15: remove_from_checkout naming a line item the checkout does not have
\* reports not-found and leaves the checkout unchanged
C15_RemoveUnknownLineItem ==
    [][(/\ last'.op = "remove_from_checkout"
        /\ last'.checkout_id \in DOMAIN checkouts
        /\ last'.line_item_id \notin ItemIds(checkouts[last'.checkout_id]))
          => /\ last'.outcome = "not_found"
             /\ checkouts' = checkouts]_vars

\* C20: no line item of an active checkout has a negative quantity, and no
\* subtotal, tax or total of a checkout is negative
C20_QuantitiesNonNegative ==
    \A id \in DOMAIN checkouts :
        /\ \A i \in DOMAIN checkouts[id].line_items : checkouts[id].line_items[i].quantity >= 0
        /\ \A i \in DOMAIN checkouts[id].totals : checkouts[id].totals[i].amount >= 0

SetApptDone == last'.op = "set_appointment" /\ last'.outcome = "ok"

\* the loop state of the set_appointment call of this step after its first k
\* requests
RunAfter(k) ==
    apply_slot_requests([checkout |-> checkouts[last'.checkout_id], cache |-> service_cache,
                         slot |-> uuids.slot, option |-> uuids.option],
                        SubSeq(last'.calls, 1, k))

\* the id of the slot the k-th request of the call updates or creates
TargetId(k) ==
    IF Given(last'.calls[k].slot_req.id) THEN last'.calls[k].slot_req.id
    ELSE Uuid("sl", RunAfter(k - 1).slot + 1)

\* the position of the slot with the id (0 if there is none)
SlotAt(slots, id) ==
    IF \E i \in DOMAIN slots : slots[i].id = id
    THEN CHOOSE i \in DOMAIN slots : slots[i].id = id /\ \A j \in 1..(i - 1) : slots[j].id # id
    ELSE 0

\* what the k-th request of the call does to the slots: a request carrying the
\* id of a slot leaves the number of slots and gives that slot the request's
\* line_item_ids; any other request appends one slot with the request's
\* line_item_ids, under the given id if there is one
RequestApplied(k) ==
    LET req == last'.calls[k].slot_req
        before == Slots(RunAfter(k - 1).checkout)
        after == Slots(RunAfter(k).checkout)
        at == IF Given(req.id) THEN SlotAt(before, req.id) ELSE 0
    IN IF at # 0
       THEN /\ Len(after) = Len(before)
            /\ after[at].id = req.id
            /\ after[at].line_item_ids = req.line_item_ids
            /\ \A i \in DOMAIN before \ {at} : after[i] = before[i]
       ELSE /\ Len(after) = Len(before) + 1
            /\ after[Len(after)].line_item_ids = req.line_item_ids
            /\ Given(req.id) => after[Len(after)].id = req.id
            /\ \A i \in DOMAIN before : after[i] = before[i]

\* after the call the slot of the k-th request lists the request's line items
RequestListed(k) ==
    /\ SlotAt(SlotsAfter, TargetId(k)) # 0
    /\ Range(last'.calls[k].slot_req.line_item_ids)
          \subseteq Range(SlotsAfter[SlotAt(SlotsAfter, TargetId(k))].line_item_ids)

\* C18: set_appointment applies its requests in order, each updating the slot
\* whose id it carries (line_item_ids replaced, number of slots unchanged) or
\* else appending one slot with its line_item_ids (under the given id, if
\* any); after the call every request's line items are listed in its slot
C18_RequestsApplied ==
    [][SetApptDone =>
          /\ \A k \in DOMAIN last'.calls : RequestApplied(k)
          /\ SlotsAfter = Slots(RunAfter(Len(last'.calls)).checkout)
          /\ \A k \in DOMAIN last'.calls : RequestListed(k)]_vars

\* C18 as amended: as C18, but after the call a request's line items are
\* listed in its slot if no later request of the call names the same slot
C18_RequestsAppliedLastWins ==
    [][SetApptDone =>
          /\ \A k \in DOMAIN last'.calls : RequestApplied(k)
          /\ SlotsAfter = Slots(RunAfter(Len(last'.calls)).checkout)
          /\ \A k \in DOMAIN last'.calls :
                 (\A m \in DOMAIN last'.calls : m > k => TargetId(m) # TargetId(k))
                     => RequestListed(k)]_vars

\* a call of two requests naming the same slot by the caller's id, for
\* different line items: the slot lists the line item of the second
C18_Witness ==
    /\ last.op = "set_appointment"
    /\ last.outcome = "ok"
    /\ Len(last.calls) >= 2
    /\ last.calls[1].slot_req.id = CallerSlotId
    /\ last.calls[2].slot_req.id = CallerSlotId
    /\ last.calls[1].slot_req.line_item_ids # last.calls[2].slot_req.line_item_ids
    /\ \E i \in DOMAIN Slots(checkouts[last.checkout_id]) :
          /\ Slots(checkouts[last.checkout_id])[i].id = CallerSlotId
          /\ Slots(checkouts[last.checkout_id])[i].line_item_ids
                = last.calls[2].slot_req.line_item_ids

\* the slots the call of this step would leave if every lookup succeeded
SlotsIfNoFailure ==
    Slots(apply_slot_requests(
              [checkout |-> checkouts[last'.checkout_id], cache |-> service_cache,
               slot |-> uuids.slot, option |-> uuids.option],
              [k \in DOMAIN last'.calls |-> [last'.calls[k] EXCEPT !.provider_ok = TRUE]]).checkout)

\* the last request of the call that names the slot with the id (0 if none)
LastRequestFor(id) ==
    LET ks == {k \in DOMAIN last'.calls : TargetId(k) = id}
    IN IF ks = {} THEN 0 ELSE CHOOSE k \in ks : \A m \in ks : m <= k

\* C19: whichever location lookups of a set_appointment call fail, the call
\* returns the checkout and its slots are those the call leaves when no lookup
\* fails, except that the slot of a request whose lookup failed has the
\* requested location id with an empty name
C19_LookupFailuresDegrade ==
    [][(last'.op = "set_appointment" /\ last'.checkout_id \in DOMAIN checkouts) =>
          /\ last'.outcome = "ok"
          /\ Len(SlotsAfter) = Len(SlotsIfNoFailure)
          /\ \A i \in DOMAIN SlotsAfter :
                 LET k == LastRequestFor(SlotsAfter[i].id)
                 IN SlotsAfter[i] =
                       IF k # 0 /\ ~last'.calls[k].provider_ok
                       THEN [SlotsIfNoFailure[i] EXCEPT !.location =
                                [id |-> last'.calls[k].slot_req.location_id, name |-> ""]]
                       ELSE SlotsIfNoFailure[i]]_vars

\* with a provider configured, the lookup failed for the first request of a
\* call and succeeded for the second
C19_Witness ==
    /\ square
    /\ last.op = "set_appointment"
    /\ last.outcome = "ok"
    /\ Len(last.calls) >= 2
    /\ ~last.calls[1].provider_ok
    /\ last.calls[2].provider_ok
    /\ \E i, j \in DOMAIN Slots(checkouts[last.checkout_id]) :
          /\ Slots(checkouts[last.checkout_id])[i].location.name = ""
          /\ Slots(checkouts[last.checkout_id])[j].location.name # ""

\* the line items of the checkout the last call names, before and after a
\* step (none before the call that creates the checkout)
ItemsBefore == IF last'.checkout_id \in DOMAIN checkouts
               THEN checkouts[last'.checkout_id].line_items ELSE <<>>
ItemsAfter == checkouts'[last'.checkout_id].line_items

\* a line item without its totals
Core(line_item) == [id |-> line_item.id, item |-> line_item.item, quantity |-> line_item.quantity]

\* the line item is the same but for its totals and has its quantity raised by n
SameBut(after, before, n) == Core(after) = [Core(before) EXCEPT !.quantity = @ + n]

\* the position of the first line item of the service (0 if there is none)
FirstOfService(line_items, service_variation_id) ==
    LET idx == {i \in DOMAIN line_items : line_items[i].item.id = service_variation_id}
    IN IF idx = {} THEN 0 ELSE CHOOSE i \in idx : \A j \in idx : i <= j

\* C21: add_to_checkout for a service that has a line item adds the quantity
\* to that line item and makes no new one; for a service without a line item
\* it appends one line item with the quantity; no checkout has two line items
\* for one service, and the subtotal is the sum of price x quantity
C21_AddMergesPerService ==
    [][/\ (last'.op = "add_to_checkout" /\ last'.outcome = "ok") =>
            LET at == FirstOfService(ItemsBefore, last'.service_variation_id)
                q == last'.quantity.value
            IN /\ IF at # 0
                  THEN /\ Len(ItemsAfter) = Len(ItemsBefore)
                       /\ \A i \in DOMAIN ItemsBefore :
                              SameBut(ItemsAfter[i], ItemsBefore[i], IF i = at THEN q ELSE 0)
                  ELSE /\ Len(ItemsAfter) = Len(ItemsBefore) + 1
                       /\ \A i \in DOMAIN ItemsBefore : SameBut(ItemsAfter[i], ItemsBefore[i], 0)
                       /\ ItemsAfter[Len(ItemsAfter)].item.id = last'.service_variation_id
                       /\ ItemsAfter[Len(ItemsAfter)].quantity = q
                       /\ ItemsAfter[Len(ItemsAfter)].id = last'.line_item_id
                       /\ \A i \in DOMAIN ItemsBefore : ItemsBefore[i].id # last'.line_item_id
               /\ AmountOf(checkouts'[last'.checkout_id].totals, "subtotal")
                     = SumAmounts([i \in DOMAIN ItemsAfter |->
                                      ItemsAfter[i].item.price * ItemsAfter[i].quantity])
       /\ \A id \in DOMAIN checkouts' :
              \A i, j \in DOMAIN checkouts'[id].line_items :
                  i # j => checkouts'[id].line_items[i].item.id
                              # checkouts'[id].line_items[j].item.id]_vars

\* a second add_to_checkout of a service raised its line item to quantity 2
\* beside the line item of the other service
C21_Witness ==
    /\ last.op = "add_to_checkout"
    /\ last.outcome = "ok"
    /\ Len(checkouts[last.checkout_id].line_items) = 2
    /\ \E i \in DOMAIN checkouts[last.checkout_id].line_items :
          /\ checkouts[last.checkout_id].line_items[i].id = last.line_item_id
          /\ checkouts[last.checkout_id].line_items[i].quantity = 2
    /\ AmountOf(checkouts[last.checkout_id].totals, "subtotal") \in {2 * 1225 + 3000, 1225 + 2 * 3000}

\* the order the last place_order stored
LastOrder == orders["ORD-" \o last.checkout_id]

PlacedWithProvider == last.op = "place_order" /\ last.outcome = "ok" /\ square

\* the number of line item references of the slots
RefCount(slots) == SumAmounts([i \in DOMAIN slots |-> Len(slots[i].line_item_ids)])

\* the create_booking call is the one for the reference of the slot to the
\* line item: the slot's location and notes, its selected option's start
\* time and staff, the line item's service, the buyer's contact fields
CallFor(call, slot, line_item) ==
    /\ call.slot_id = slot.id
    /\ call.line_item_id = line_item.id
    /\ call.location_id = slot.location.id
    /\ call.customer_notes = slot.notes
    /\ call.service_variation_id = line_item.item.id
    /\ call.customer = Customer1
    /\ \E o \in DOMAIN slot.options :
          /\ slot.options[o].id = slot.selected_option_id
          /\ call.start_time = slot.options[o].start_time
          /\ call.staff_id = slot.options[o].staff_id

\* C24: place_order with a provider issues one create_booking call for every
\* reference of a slot to a line item, carrying that slot's and line item's
\* data, and no other call: as many calls as references
C24_OneBookingPerReference ==
    PlacedWithProvider =>
        /\ Len(last.attempts) = RefCount(Slots(LastOrder))
        /\ \A k \in DOMAIN last.attempts :
               \E i \in DOMAIN Slots(LastOrder), j \in DOMAIN LastOrder.line_items :
                   /\ Contains(Slots(LastOrder)[i].line_item_ids, LastOrder.line_items[j].id)
                   /\ CallFor(last.attempts[k], Slots(LastOrder)[i], LastOrder.line_items[j])

\* C25: start_payment on a checkout that is ready_for_complete returns it
\* with no message and changes nothing
C25_GateOnReadyIsNoOp ==
    [][(last'.op = "start_payment" /\ last'.status_before = "ready_for_complete")
          => /\ last'.outcome = "ok"
             /\ last'.messages = <<>>
             /\ checkouts' = checkouts
             /\ orders' = orders]_vars

C25_Witness ==
    /\ last.op = "start_payment"
    /\ last.status_before = "ready_for_complete"
    /\ checkouts[last.checkout_id].line_items # <<>>

\* C26: add_to_checkout fails when the service cannot be resolved (it is not
\* cached and there is no provider to ask), and a failed add_to_checkout
\* leaves the store as it was: no checkout created, none changed
C26_FailedAddChangesNothing ==
    [][last'.op = "add_to_checkout" =>
          /\ (last'.service_variation_id \notin service_cache /\ ~square)
                 => last'.outcome = "error"
          /\ last'.outcome = "error"
                 => /\ checkouts' = checkouts
                    /\ orders' = orders
                    /\ uuids' = uuids
                    /\ service_cache' = service_cache]_vars

\* add_to_checkout failed on a checkout that has a line item
C26_Witness ==
    /\ last.op = "add_to_checkout"
    /\ last.outcome = "error"
    /\ last.checkout_id \in DOMAIN checkouts
    /\ checkouts[last.checkout_id].line_items # <<>>

\* where in the stored slots the create_booking call belongs: the position of
\* its slot and the position of its line item in the slot's line_item_ids
CallPosition(call, slots) ==
    LET i == SlotAt(slots, call.slot_id)
        js == {j \in DOMAIN slots[i].line_item_ids : slots[i].line_item_ids[j] = call.line_item_id}
    IN <<i, CHOOSE j \in js : \A m \in js : j <= m>>

\* the references of the slots to line items of the checkout
ValidRefCount(checkout) ==
    SumAmounts([i \in DOMAIN Slots(checkout) |->
                   Cardinality({j \in DOMAIN Slots(checkout)[i].line_item_ids :
                                   Slots(checkout)[i].line_item_ids[j] \in ItemIds(checkout)})])

\* C27: the create_booking calls of a place_order come in the stored order of
\* the slots and, within a slot, of its line_item_ids, and are the same
\* whichever of them fail
C27_BookingCallsInStoredOrder ==
    PlacedWithProvider =>
        /\ Len(last.attempts) = ValidRefCount(LastOrder)
        /\ \A a, b \in DOMAIN last.attempts :
               a < b => LET pa == CallPosition(last.attempts[a], Slots(LastOrder))
                            pb == CallPosition(last.attempts[b], Slots(LastOrder))
                        IN pa[1] < pb[1] \/ (pa[1] = pb[1] /\ pa[2] < pb[2])

\* two calls were made, for two slots, and the first of them failed
C27_Witness ==
    /\ PlacedWithProvider
    /\ Len(last.attempts) >= 2
    /\ last.attempts[1].slot_id # last.attempts[2].slot_id
    /\ 1 \in last.failed
    /\ 2 \notin last.failed

UpdateNamed == last'.op = "update_checkout" /\ last'.checkout_id \in DOMAIN checkouts

\* C28: update_checkout naming a line item the checkout does not have reports
\* not-found and leaves the checkout unchanged, whatever else it was given
C28_UpdateUnknownLineItem ==
    [][(UpdateNamed /\ last'.line_item_id \notin ItemIds(checkouts[last'.checkout_id]))
          => /\ last'.outcome = "not_found"
             /\ checkouts' = checkouts
             /\ uuids' = uuids]_vars

\* the call was given a quantity and appointment details for a line item
\* that a checkout with a line item does not have
C28_Witness ==
    /\ last.op = "update_checkout"
    /\ last.outcome = "not_found"
    /\ last.line_item_id = "li-ghost"
    /\ last.quantity.given
    /\ last.appt = Appt1
    /\ checkouts[last.checkout_id].line_items # <<>>

\* C29: a successful update_checkout gives the named line item exactly the
\* quantity it was given and changes no other quantity; given no quantity
\* it changes none
C29_UpdateSetsQuantity ==
    [][(UpdateNamed /\ last'.outcome = "ok")
          => /\ Len(ItemsAfter) = Len(ItemsBefore)
             /\ \A i \in DOMAIN ItemsBefore :
                    Core(ItemsAfter[i]) =
                        IF ItemsBefore[i].id = last'.line_item_id /\ last'.quantity.given
                        THEN [Core(ItemsBefore[i]) EXCEPT !.quantity = last'.quantity.value]
                        ELSE Core(ItemsBefore[i])]_vars

\* one of two line items was given the quantity, the other has its own
C29_Witness ==
    /\ last.op = "update_checkout"
    /\ last.outcome = "ok"
    /\ last.quantity = Quantity(MaxQuantity)
    /\ \E i, j \in DOMAIN checkouts[last.checkout_id].line_items :
          /\ checkouts[last.checkout_id].line_items[i].id = last.line_item_id
          /\ checkouts[last.checkout_id].line_items[i].quantity = MaxQuantity
          /\ checkouts[last.checkout_id].line_items[j].quantity # MaxQuantity

\* C30: remove_from_checkout of a line item of the checkout removes that line
\* item and no other: the others stay, in their order, with their quantity
C30_RemoveExactlyOne ==
    [][(RemoveDone /\ \E i \in DOMAIN ItemsBefore : ItemsBefore[i].id = last'.line_item_id)
          => /\ \A i \in DOMAIN ItemsAfter : ItemsAfter[i].id # last'.line_item_id
             /\ Len(ItemsAfter) = Len(ItemsBefore) - 1
             /\ LET Other(li) == li.id # last'.line_item_id
                    rest == SelectSeq(ItemsBefore, Other)
                IN \A i \in DOMAIN ItemsAfter : Core(ItemsAfter[i]) = Core(rest[i])]_vars

\* one of two line items was removed and the other is left
C30_Witness ==
    /\ last.op = "remove_from_checkout"
    /\ last.outcome = "ok"
    /\ uuids.line_item = 2
    /\ Len(checkouts[last.checkout_id].line_items) = 1
    /\ checkouts[last.checkout_id].line_items[1].id # last.line_item_id

\* C23: a store operation leaves every active checkout other than the one it
\* names, and every stored order, as it was
C23_OtherCheckoutsUntouched ==
    [][last'.op \in StoreOps =>
          /\ \A id \in DOMAIN checkouts \ {last'.checkout_id} :
                 id \in DOMAIN checkouts' /\ checkouts'[id] = checkouts[id]
          /\ \A o \in DOMAIN orders :
                 o \in DOMAIN orders' /\ orders'[o] = orders[o]]_vars

\* an order was placed for one checkout while another, with a line item, is
\* active
C23_Witness ==
    /\ last.op = "place_order"
    /\ last.outcome = "ok"
    /\ \E id \in DOMAIN checkouts :
          /\ id # last.checkout_id
          /\ checkouts[id].line_items # <<>>

\* the checkout after the call is run alone, from start to end, on the
\* checkout; tag makes the ids of what the call creates
RunAlone(checkout, call, tag) ==
    LET wants_slot == Given(call.appt.location_id) /\ Given(call.appt.start_time)
        Attached(with_item, line_item_id) ==
            IF wants_slot
            THEN add_or_update_appointment_slot(
                     with_item, line_item_id, call.appt.location_id, call.appt.staff_id,
                     call.appt.start_time, call.appt.notes,
                     ServiceVariation(call.service_variation_id), TRUE,
                     "sl-" \o tag, "op-" \o tag)
            ELSE with_item
    IN IF call.op = "add_to_checkout"
       THEN LET at == FirstOfService(checkout.line_items, call.service_variation_id)
                line_item_id == IF at # 0 THEN checkout.line_items[at].id ELSE "li-" \o tag
            IN recalculate_checkout(
                   Attached(add_or_merge_line_item(
                                checkout, ServiceVariation(call.service_variation_id),
                                call.quantity.value, line_item_id),
                            line_item_id))
       ELSE IF call.op = "update_checkout"
       THEN IF call.line_item_id \in ItemIds(checkout)
            THEN recalculate_checkout(
                     Attached(find_and_update_line_item(checkout, call.line_item_id,
                                                        call.quantity),
                              call.line_item_id))
            ELSE checkout
       ELSE recalculate_checkout(remove_line_item(checkout, call.line_item_id))

\* the service of the line item with the id in the checkout
ServiceOf(checkout, line_item_id) ==
    LET idx == {i \in DOMAIN checkout.line_items : checkout.line_items[i].id = line_item_id}
    IN IF idx = {} THEN "no line item"
       ELSE checkout.line_items[CHOOSE i \in idx : \A j \in idx : i <= j].item.id

\* the checkout without the ids handed out by uuid4(): its line items by
\* service and quantity, its slots by the services of the line items they
\* list and their details, its totals and status
Shape(checkout) ==
    [line_items |-> [i \in DOMAIN checkout.line_items |->
                        [service |-> checkout.line_items[i].item.id,
                         quantity |-> checkout.line_items[i].quantity,
                         totals |-> checkout.line_items[i].totals]],
     slots |-> [i \in DOMAIN Slots(checkout) |->
                   [services |-> [j \in DOMAIN Slots(checkout)[i].line_item_ids |->
                                     ServiceOf(checkout, Slots(checkout)[i].line_item_ids[j])],
                    location |-> Slots(checkout)[i].location,
                    notes |-> Slots(checkout)[i].notes,
                    options |-> [o \in DOMAIN Slots(checkout)[i].options |->
                                    [Slots(checkout)[i].options[o] EXCEPT !.id = "option"]]]],
     totals |-> checkout.totals,
     status |-> checkout.status]

\* C22: when two calls on the same checkout have run at the same time, the
\* checkout is (up to the ids handed out) what one of the two serial orders
\* of the calls gives: no line item in two slots, no slot for a line item
\* that is gone, no second line item for a service, totals of the line items
C22_ConcurrentCallsSerializable ==
    (\A t \in Threads : threads.run[t].pc = "done") =>
        \A id \in DOMAIN checkouts :
            Shape(checkouts[id]) \in
                {Shape(RunAlone(RunAlone(threads.base, threads.run[1], "a"),
                                threads.run[2], "b")),
                 Shape(RunAlone(RunAlone(threads.base, threads.run[2], "a"),
                                threads.run[1], "b"))}

\* C34: the active checkouts are incomplete or ready_for_complete and carry
\* no order; the completed orders have status completed and the order id
\* 'ORD-' + checkout id, under which they are stored; no checkout id is
\* active and completed at once
C34_CollectionsPartitionByStatus ==
    /\ \A id \in DOMAIN checkouts :
          /\ checkouts[id].status \in {"incomplete", "ready_for_complete"}
          /\ checkouts[id].order = NoOrder
    /\ \A order_id \in DOMAIN orders :
          /\ orders[order_id].status = "completed"
          /\ orders[order_id].order.id = "ORD-" \o orders[order_id].id
          /\ orders[order_id].order.id = order_id
    /\ \A id \in DOMAIN checkouts : "ORD-" \o id \notin DOMAIN orders

\* the first checkout was completed and the second is ready
C34_Witness ==
    /\ DOMAIN orders = {"ORD-co1"}
    /\ orders["ORD-co1"].line_items # <<>>
    /\ DOMAIN checkouts = {"co2"}
    /\ checkouts["co2"].status = "ready_for_complete"

\* the slot has one option, which is the selected one
OneSelectedOption(slot) ==
    /\ Len(slot.options) = 1
    /\ slot.selected_option_id = slot.options[1].id

\* C36: every slot of every checkout, active or completed, has exactly one
\* option, the selected one; so a place_order with a provider attempts a
\* booking for every line item of the checkout that a slot lists
C36_OneSelectedOptionPerSlot ==
    /\ \A id \in DOMAIN checkouts :
          \A i \in DOMAIN Slots(checkouts[id]) : OneSelectedOption(Slots(checkouts[id])[i])
    /\ \A order_id \in DOMAIN orders :
          \A i \in DOMAIN Slots(orders[order_id]) : OneSelectedOption(Slots(orders[order_id])[i])
    /\ PlacedWithProvider =>
          \A i \in DOMAIN Slots(LastOrder) :
              \A li \in Range(Slots(LastOrder)[i].line_item_ids) \cap ItemIds(LastOrder) :
                  \E a \in DOMAIN last.attempts :
                      /\ last.attempts[a].slot_id = Slots(LastOrder)[i].id
                      /\ last.attempts[a].line_item_id = li
                      /\ last.attempts[a].start_time = Slots(LastOrder)[i].options[1].start_time

\* an order was placed with a provider for a slot that set_appointment had
\* given new details, and with them its second option
C36_Witness ==
    /\ PlacedWithProvider
    /\ Len(last.attempts) >= 1
    /\ \E i \in DOMAIN Slots(LastOrder) :
          /\ Slots(LastOrder)[i].id = "sl1"
          /\ Slots(LastOrder)[i].selected_option_id = "op2"
          /\ Slots(LastOrder)[i].location.id = Appt2.location_id

\* the slots of the checkout that have the id
WithSlotId(checkout, slot_id) ==
    {i \in DOMAIN Slots(checkout) : Slots(checkout)[i].id = slot_id}

\* C37: the slot ids of a checkout are unique; after a set_appointment every
\* slot id named by a request is the id of exactly one slot, and that slot
\* is as the last request naming the id made it
C37_SlotIdsUnique ==
    /\ \A id \in DOMAIN checkouts :
          \A i, j \in DOMAIN Slots(checkouts[id]) :
              Slots(checkouts[id])[i].id = Slots(checkouts[id])[j].id => i = j
    /\ (last.op = "set_appointment" /\ last.outcome = "ok") =>
          \A k \in DOMAIN last.calls :
              LET slot_req == last.calls[k].slot_req
                  later == {m \in DOMAIN last.calls :
                               m > k /\ last.calls[m].slot_req.id = slot_req.id}
                  at == WithSlotId(checkouts[last.checkout_id], slot_req.id)
              IN Given(slot_req.id) =>
                    /\ Cardinality(at) = 1
                    /\ later = {} =>
                          \A i \in at : Slots(checkouts[last.checkout_id])[i].line_item_ids
                                             = slot_req.line_item_ids

\* a call carried the caller's slot id twice, for different line items, and
\* the checkout had no slot before: it has one now, for the second line item
C37_Witness ==
    /\ last.op = "set_appointment"
    /\ last.outcome = "ok"
    /\ Len(last.calls) = 2
    /\ last.calls[1].slot_req.id = CallerSlotId
    /\ last.calls[2].slot_req.id = CallerSlotId
    /\ last.calls[1].slot_req.line_item_ids # last.calls[2].slot_req.line_item_ids
    /\ Len(Slots(checkouts[last.checkout_id])) = 1
    /\ Slots(checkouts[last.checkout_id])[1].line_item_ids = last.calls[2].slot_req.line_item_ids
    /\ uuids.slot = 0

\* C35: while set_appointment is not used, every slot of an active checkout
\* lists exactly one line item, a line item of the checkout, and no two
\* slots list the same line item
C35_OneSlotOneLineItem ==
    \A id \in DOMAIN checkouts :
        /\ \A i \in DOMAIN Slots(checkouts[id]) :
              /\ Len(Slots(checkouts[id])[i].line_item_ids) = 1
              /\ Slots(checkouts[id])[i].line_item_ids[1] \in ItemIds(checkouts[id])
        /\ \A i, j \in DOMAIN Slots(checkouts[id]) :
              Slots(checkouts[id])[i].line_item_ids = Slots(checkouts[id])[j].line_item_ids
                  => i = j

\* of two line items, the first with a slot, the second was removed: the
\* slot of the first is there
C35_Witness ==
    /\ last.op = "remove_from_checkout"
    /\ last.line_item_id = "li2"
    /\ ItemIds(checkouts[last.checkout_id]) = {"li1"}
    /\ Len(Slots(checkouts[last.checkout_id])) = 1
    /\ Slots(checkouts[last.checkout_id])[1].line_item_ids = <<"li1">>

\* the checkout has no line item and no slot
Empty(checkout) == checkout.line_items = <<>> /\ Slots(checkout) = <<>>

\* C38: a checkout without line items and slots that has a buyer passes the
\* gate (start_payment marks it ready_for_complete), and place_order on a
\* checkout without line items and slots gives a completed order and calls
\* create_booking not once
C38_EmptyCheckoutPassesGate ==
    [][\A id \in DOMAIN checkouts :
          (last'.checkout_id = id /\ Empty(checkouts[id]))
          => /\ (last'.op = "start_payment" /\ checkouts[id].buyer # NoBuyer)
                   => /\ last'.outcome = "ok"
                      /\ checkouts'[id].status = "ready_for_complete"
             /\ last'.op = "place_order"
                   => /\ last'.outcome = "ok"
                      /\ last'.attempts = <<>>
                      /\ bookings' = bookings
                      /\ id \notin DOMAIN checkouts'
                      /\ orders'["ORD-" \o id].status = "completed"]_vars

\* the only line item was removed, the checkout was made ready and an order
\* was placed for it with a provider
C38_Witness ==
    /\ PlacedWithProvider
    /\ last.status_before = "ready_for_complete"
    /\ Empty(LastOrder)
    /\ LastOrder.buyer # NoBuyer
    /\ uuids.line_item >= 1
    /\ uuids.slot >= 1

\* C39: the service of every line item is in the cache, so update_checkout
\* for a line item of the checkout never fails on the service and never stops
\* between setting the quantity and recalculating: it reports not-found and
\* changes nothing, or it ends with the quantity set, the totals
\* recalculated and the status incomplete, provider or no provider
C39_UpdateAllOrNothing ==
    [][/\ \A id \in DOMAIN checkouts :
            \A i \in DOMAIN checkouts[id].line_items :
                checkouts[id].line_items[i].item.id \in service_cache
       /\ UpdateNamed =>
            \/ /\ last'.outcome = "not_found"
               /\ last'.line_item_id \notin ItemIds(checkouts[last'.checkout_id])
               /\ checkouts' = checkouts
            \/ /\ last'.outcome = "ok"
               /\ last'.line_item_id \in ItemIds(checkouts[last'.checkout_id])
               /\ checkouts'[last'.checkout_id] =
                      recalculate_checkout(checkouts'[last'.checkout_id])
               /\ \A i \in DOMAIN ItemsAfter :
                      (ItemsAfter[i].id = last'.line_item_id /\ last'.quantity.given)
                          => ItemsAfter[i].quantity = last'.quantity.value]_vars

\* a quantity and appointment details were given for a line item while the
\* provider did not answer: the quantity is set, the totals are those of the
\* new quantity and the slot has the location without its name
C39_Witness ==
    /\ square
    /\ last.op = "update_checkout"
    /\ last.outcome = "ok"
    /\ last.quantity = Quantity(MaxQuantity)
    /\ last.appt = Appt2
    /\ checkouts[last.checkout_id].status = "incomplete"
    /\ \E i \in DOMAIN Slots(checkouts[last.checkout_id]) :
          /\ Slots(checkouts[last.checkout_id])[i].line_item_ids = <<last.line_item_id>>
          /\ Slots(checkouts[last.checkout_id])[i].location = [id |-> "loc2", name |-> ""]

\* C31: add_to_checkout and update_checkout given both a location id and a
\* start time leave exactly one slot listing the line item, at the given
\* location; given only one of the two, or neither, they leave the slots of
\* the checkout as they were
C31_SlotsOnlyWithBothArguments ==
    [][(last'.op \in {"add_to_checkout", "update_checkout"} /\ last'.outcome = "ok") =>
          IF Given(last'.appt.location_id) /\ Given(last'.appt.start_time)
          THEN /\ Cardinality(Listing(SlotsAfter, last'.line_item_id)) = 1
               /\ \A i \in Listing(SlotsAfter, last'.line_item_id) :
                      SlotsAfter[i].location.id = last'.appt.location_id
          ELSE SlotsAfter = SlotsBefore]_vars

\* the create_booking calls the threads made for the slot and the line item
BookingsMadeFor(slot_id, line_item_id) ==
    SumAmounts([t \in 1..Cardinality(Threads) |->
                   Cardinality({k \in DOMAIN threads.run[t].attempts :
                                   /\ threads.run[t].attempts[k].slot_id = slot_id
                                   /\ threads.run[t].attempts[k].line_item_id = line_item_id})])

\* C33: when two place_order calls for one checkout have run at the same
\* time, in whatever interleaving, at most one create_booking call was made
\* for each slot and line item of the checkout, at most one of the calls
\* returned the completed order, and the other reported not-found
C33_FinalizedAtMostOnce ==
    ((\A t \in Threads : threads.run[t].pc = "done" /\ threads.run[t].op = "place_order")
        /\ threads.run[1].checkout_id = threads.run[2].checkout_id)
    => /\ \A i \in DOMAIN Slots(threads.base) :
             \A li \in Range(Slots(threads.base)[i].line_item_ids) :
                 BookingsMadeFor(Slots(threads.base)[i].id, li) <= 1
       /\ {threads.run[1].outcome, threads.run[2].outcome} = {"ok", "not_found"}

\* the step is a call of the agent's tool
ToolStep(tool) == state'.call.tool = tool

StoreUnchanged ==
    /\ checkouts' = checkouts
    /\ orders' = orders
    /\ bookings' = bookings
    /\ uuids' = uuids

\* C32: complete_checkout places an order (place_order is called, bookings
\* are created, an order is stored) only if the state holds payment data and
\* the payment processor returned a completed task; when the payment data is
\* missing, or the processor raises, returns no task or a task in another
\* state, no booking is created and the checkout stays among the active
\* ones as it was
C32_FinalizeOnlyAfterPayment ==
    [][ToolStep("complete_checkout") =>
          /\ (orders' # orders \/ bookings' # bookings \/ checkouts' # checkouts
                 \/ state'.call.status = "success")
                => (state.payment_data /\ state'.call.task = "completed")
          /\ (~state.payment_data \/ state'.call.task # "completed")
                => /\ StoreUnchanged
                   /\ state'.call.status # "success"
                   /\ Given(state.checkout_id) =>
                          /\ state.checkout_id \in DOMAIN checkouts'
                          /\ checkouts'[state.checkout_id].status
                                 = checkouts[state.checkout_id].status]_vars

\* the payment of a checkout with a slot was confirmed at the second attempt,
\* and the order was placed with a booking
C32_Witness ==
    /\ state.call = ToolCall("complete_checkout", "success", "completed")
    /\ last.op = "place_order"
    /\ Len(last.attempts) = 1
    /\ bookings = 1
    /\ orders["ORD-co1"].status = "completed"
    /\ orders["ORD-co1"].buyer # NoBuyer

CheckoutTools == {"get_checkout", "update_checkout", "remove_from_checkout",
                  "set_appointment", "start_payment"}

\* C40: a complete_checkout that succeeds clears the checkout id of the
\* conversation and one that does not leaves it; while the id is cleared
\* get_checkout, update_checkout, remove_from_checkout, set_appointment and
\* start_payment answer that no checkout has been created and the store is
\* not touched; the next add_to_checkout that succeeds makes a new checkout
\* whose id was never handed out before
C40_CompletedCheckoutIsLeft ==
    [][/\ ToolStep("complete_checkout") =>
            state'.checkout_id = IF state'.call.status = "success" THEN None
                                 ELSE state.checkout_id
       /\ (\E tool \in CheckoutTools : ToolStep(tool)) /\ ~Given(state.checkout_id)
            => /\ state'.call.status = "no_checkout"
               /\ StoreUnchanged
               /\ state'.checkout_id = state.checkout_id
       /\ (ToolStep("add_to_checkout") /\ ~Given(state.checkout_id)
              /\ state'.call.status = "success")
            => /\ state'.checkout_id \notin KnownCheckoutIds
               /\ state'.checkout_id \notin DOMAIN checkouts
               /\ OrderId(state'.checkout_id) \notin DOMAIN orders
               /\ state'.checkout_id \in DOMAIN checkouts'
               /\ Len(checkouts'[state'.checkout_id].line_items) = 1
               /\ orders' = orders]_vars

\* after the order of the first checkout a second checkout was begun
C40_Witness ==
    /\ state.call = ToolCall("add_to_checkout", "success", "none")
    /\ state.checkout_id = "co2"
    /\ DOMAIN checkouts = {"co2"}
    /\ DOMAIN orders = {"ORD-co1"}
    /\ orders["ORD-co1"].line_items # <<>>

====
